---- MODULE Spec2Model ----
(***************************************************************************)
(* A model of dinq-message: the relational store (conversations, members,  *)
(* messages), the Redis cache (SETNX locks with a TTL, offline lists), the *)
(* per-replica WebSocket hub (registry, per-client outbound channel) and   *)
(* the request-bound tasks that run the handlers of the services.          *)
(*                                                                         *)
(* Every database statement, cache command, registry access under h.mu and *)
(* channel operation is one atomic step; a handler is the sequence of its  *)
(* steps, held in a task record whose pc is the handler's position.        *)
(***************************************************************************)
EXTENDS Integers, Sequences, FiniteSets, TLC

\* ---------------------------------------------------------------- bounds
NumUsers == 3
NumPods == 2
MaxConvs == 2
NumClients == 3
NumTasks == 2
\* capacity of Client.Send in the hub specifications (the program makes it
\* with 1024 slots; the hub specifications scale it down so that it can fill)
HubChanCap == 2
\* Hub.MaxConnectionsPerUser (18 unless configured), scaled down
MaxConnectionsPerUser == 2
\* frames that are not JSON a client sends at most
MaxBadFrames == 1
\* forced logouts in the hub specification
NumLogouts == 1
\* seconds the clock advances in the recall specification
MaxTicks == 1

\* ------------------------------------------------------ program constants
\* make(chan []byte, 1024) in HandleWebSocket
SendChanCap == 1024
\* `if elapsedSeconds > 10` in RecallMessage
RecallWindowSeconds == 10

Users == 1..NumUsers
Pods == 1..NumPods
ConvIds == 1..MaxConvs
ClientIds == 1..NumClients
TaskIds == 1..NumTasks
Nil == 0

VARIABLES
    conversations,          \* table conversations: id -> row
    conversation_members,   \* table conversation_members: <<conv, user>> -> row
    messages,               \* table messages, in insertion order; id = index
    user_relationships,     \* table user_relationships: <<user, target>> blocked
    now,                    \* NOW() / time.Now(), in seconds
    locks,                  \* the lock:* keys currently set in Redis
    offline_msg,            \* Redis lists offline_msg:{user}
    online,                 \* the users whose key online:{user} is set in Redis
    settingsCache,          \* settingsCache of the SystemSettingsService main shares
    convSettingsCache,      \* settingsCache of ConversationService's own sysSvc
    system_settings,        \* table system_settings: setting_key -> value
    Clients,                \* Hub.Clients of each replica: the registered clients
    conn,                   \* Client: life cycle and immutable UserID / replica
    Send,                   \* Client.Send, the buffered outbound channel
    chanCap,                \* capacity Client.Send was made with
    closed,                 \* Client.closed (Send has been closed)
    CurrentConversationID,  \* Client.CurrentConversationID
    written,                \* frames writePump has written to the socket
    unregistering,          \* clients with a `go h.Unregister(client)` in flight
    dropped,                \* clients for which a full channel discarded a frame
    panicked,               \* replicas whose process died of a send on a closed channel
    task                    \* the request-bound tasks (handler invocations)

dbVars == <<conversations, conversation_members, messages, user_relationships, now>>
redisVars == <<locks, offline_msg, online>>
settingsVars == <<settingsCache, convSettingsCache, system_settings>>
hubVars == <<Clients, conn, Send, chanCap, closed, CurrentConversationID, written,
             unregistering, dropped, panicked>>
vars == <<conversations, conversation_members, messages, user_relationships, now, locks,
          offline_msg, online,
          settingsVars, Clients, conn, Send, chanCap, closed,
          CurrentConversationID, written, unregistering, dropped, panicked, task>>

\* ------------------------------------------------------------- rows, frames
NoConversation == [conversation_type |-> "none", last_message_id |-> Nil]
NoMember == [state |-> "none", role |-> "none", unread_count |-> 0,
             is_hidden |-> FALSE, last_read_message_id |-> Nil, last_read_at |-> Nil]
NewMember(role) == [state |-> "active", role |-> role, unread_count |-> 0,
                    is_hidden |-> FALSE, last_read_message_id |-> Nil,
                    last_read_at |-> Nil]

Frame(type, conv, id, n, text) ==
    [type |-> type, conv |-> conv, id |-> id, n |-> n, text |-> text]

\* phase: where readPump is; replay, list: where sendOfflineMessages is and
\* what its LRANGE returned
NoConn == [phase |-> "none", UserID |-> Nil, pod |-> Nil, replay |-> "none", list |-> <<>>]

IdleTask ==
    [pc |-> "idle", op |-> "none", pod |-> Nil, client |-> Nil, user |-> Nil,
     req_conv |-> Nil, req_recv |-> Nil, conv |-> Nil, justCreated |-> FALSE,
     locked |-> FALSE, members |-> {}, munread |-> [u \in Users |-> 0],
     viewing |-> {}, msg |-> Nil, err |-> "", todo |-> {},
     bq |-> <<>>, copy |-> {}, cur |-> Nil, ret |-> "idle",
     created_at |-> Nil,    \* message.CreatedAt once tx.Create has run
     RowsAffected |-> 0,    \* result.RowsAffected of MarkAsRead's UPDATE
     target |-> Nil,        \* targetUserID of a membership request
     ids |-> <<>>,          \* memberIDs of a membership request still to handle
     newRole |-> "none",    \* newRole of UpdateMemberRole
     key |-> "",            \* setting key of a settings request or flag read
     value |-> FALSE,       \* value written by UpdateSetting / seen by a flag read
     component |-> "",      \* the component whose code reads the flag
     settings |-> <<>>,     \* rows LoadSettings has read and not yet cached
     gone |-> {},       \* history: who had left req_conv when the task began
     devs |-> {}]       \* history: the target's registered clients when a broadcast began

\* ------------------------------------------------------------ store queries
Min(a, b) == IF a < b THEN a ELSE b
Max(a, b) == IF a < b THEN b ELSE a

HasRow(c, u) == conversation_members[<<c, u>>].state # "none"
IsActive(c, u) == conversation_members[<<c, u>>].state = "active"
ActiveMembers(c) == {u \in Users : IsActive(c, u)}

\* the SELECT of getOrCreatePrivateConversation / CreateOrGetPrivateConversation
PrivateConversationsOf(u1, u2) ==
    {c \in ConvIds :
        /\ conversations[c].conversation_type = "private"
        /\ HasRow(c, u1)
        /\ HasRow(c, u2)
        /\ Cardinality(ActiveMembers(c)) = 2}

FreeConvIds == {c \in ConvIds : conversations[c].conversation_type = "none"}

CreateLockKey(u1, u2) == <<"create_conversation", Min(u1, u2), Max(u1, u2)>>
SendLockKey(c, u) == <<"send_msg", c, u>>

\* GetBoolSetting(key, false): a key the cache does not hold counts as off
IsFeatureEnabled(key) == key \in DOMAIN settingsCache /\ settingsCache[key]

isConversationMember(c, u) == c \in ConvIds /\ IsActive(c, u)

MessagesOf(c) == {i \in 1..Len(messages) : messages[i].conversation_id = c}

CheckCanSend(u, c) ==
    IF ~IsFeatureEnabled("enable_first_message_limit") THEN TRUE
    ELSE IF c \notin ConvIds \/ conversations[c].conversation_type = "none" THEN TRUE
    ELSE IF conversations[c].conversation_type # "private" THEN TRUE
    ELSE IF {i \in MessagesOf(c) : messages[i].sender_id = u} = {} THEN TRUE
    ELSE {i \in MessagesOf(c) : messages[i].sender_id # u} # {}

isBlocked(sender, receiver) == <<receiver, sender>> \in user_relationships

\* --------------------------------------------------------------- hub reads
ClientsOfUser(p, u) == {c \in Clients[p] : conn[c].UserID = u}

IsUserInConversation(p, u, cv) ==
    \E c \in ClientsOfUser(p, u) : CurrentConversationID[c] = cv

\* ----------------------------------------------------------------- tasks
Busy(c) == \E t \in TaskIds : task[t].client = c /\ task[t].pc \notin {"idle", "done"}

Alive(t) == task[t].pod \in Pods /\ ~panicked[task[t].pod]

\* the task continues at `ret` once the BroadcastToUser calls `calls` are made
WithCalls(r, calls, ret) ==
    IF calls = <<>> THEN [r EXCEPT !.pc = ret]
    ELSE [r EXCEPT !.pc = "SendToUser", !.bq = calls, !.ret = ret]

Call(u, f) == [user |-> u, frame |-> f]

\* where SendMessage goes when it returns: the deferred DEL of the send lock,
\* then handleSendMessage's error reply or its push of the message frame
AfterSend(r) ==
    IF r.locked THEN "unlock"
    ELSE IF r.err # "" THEN "sendError"
    ELSE "handlerMembers"

Fail(r, e) == [r EXCEPT !.err = e, !.pc = AfterSend([r EXCEPT !.err = e])]

\* ------------------------------------------------- Hub.BroadcastToUser
\* SendToUser, first half: under h.mu.RLock copy the user's clients.  With no
\* client the call returns false.  The Publish that follows reaches no
\* subscriber: main never calls StartPubSub, so no replica is subscribed to
\* ws:broadcast and Redis discards the envelope.
SendToUserCopy(t) ==
    /\ task[t].pc = "SendToUser"
    /\ Alive(t)
    /\ LET r == task[t]
           cs == ClientsOfUser(r.pod, Head(r.bq).user)
       IN task' = [task EXCEPT ![t] =
                IF cs # {} THEN [r EXCEPT !.pc = "enqueue", !.copy = cs]
                ELSE IF Tail(r.bq) = <<>> THEN [r EXCEPT !.pc = r.ret, !.bq = <<>>]
                ELSE [r EXCEPT !.bq = Tail(r.bq)]]
    /\ UNCHANGED <<dbVars, redisVars, settingsVars, hubVars>>

\* the outcome of the select { case client.Send <- message: ; default: } on c
ChanSend(c, f, onFull) ==
    IF closed[c] THEN "panic"
    ELSE IF Len(Send[c]) < chanCap[c] THEN "sent"
    ELSE onFull

\* SendToUser, second half: one iteration of the loop over clientsCopy
SendToUserEnqueue(t) ==
    /\ task[t].pc = "enqueue"
    /\ Alive(t)
    /\ \E c \in task[t].copy :
        LET r == task[t]
            f == Head(r.bq).frame
            res == ChanSend(c, f, "unregister")
            rest == r.copy \ {c}
        IN /\ Send' = IF res = "sent" THEN [Send EXCEPT ![c] = Append(@, f)] ELSE Send
           /\ panicked' = IF res = "panic" THEN [panicked EXCEPT ![r.pod] = TRUE]
                          ELSE panicked
           /\ unregistering' = IF res = "unregister" THEN unregistering \cup {c}
                               ELSE unregistering
           /\ dropped' = IF res = "unregister" THEN dropped \cup {c} ELSE dropped
           /\ task' = [task EXCEPT ![t] =
                IF rest # {} THEN [r EXCEPT !.copy = rest]
                ELSE IF Tail(r.bq) = <<>>
                     THEN [r EXCEPT !.pc = r.ret, !.bq = <<>>, !.copy = {}]
                ELSE [r EXCEPT !.pc = "SendToUser", !.bq = Tail(r.bq), !.copy = {}]]
    /\ UNCHANGED <<dbVars, redisVars, settingsVars, Clients, conn, chanCap, closed,
                   CurrentConversationID, written>>

\* Client.sendError: a non-blocking send on the task's own client
sendError(t) ==
    /\ task[t].pc = "sendError"
    /\ Alive(t)
    /\ LET r == task[t]
           c == r.client
           f == Frame("error", Nil, Nil, 0, r.err)
           res == IF c = Nil THEN "http" ELSE ChanSend(c, f, "drop")
       IN /\ Send' = IF res = "sent" THEN [Send EXCEPT ![c] = Append(@, f)] ELSE Send
          /\ panicked' = IF res = "panic" THEN [panicked EXCEPT ![r.pod] = TRUE]
                         ELSE panicked
          /\ dropped' = IF res = "drop" THEN dropped \cup {c} ELSE dropped
          /\ task' = [task EXCEPT ![t] = [r EXCEPT !.pc = "done"]]
    /\ UNCHANGED <<dbVars, redisVars, settingsVars, Clients, conn, chanCap, closed,
                   CurrentConversationID, written, unregistering>>

\* SetNX without an expiration: no key is ever removed by Redis
LockExpire_NoTTL(k) ==
    /\ k \in locks
    /\ FALSE
    /\ locks' = locks \ {k}
    /\ UNCHANGED <<dbVars, offline_msg, online, settingsVars, hubVars, task>>

\* Redis expires a lock key when its TTL (5 s / 2 s) has run out
LockExpire(k) ==
    /\ k \in locks
    /\ locks' = locks \ {k}
    /\ UNCHANGED <<dbVars, offline_msg, online, settingsVars, hubVars, task>>

\* ------------------------------------------------ MessageService.SendMessage
\* readPump of client c reads a "message" frame and calls handleSendMessage
StartSend(t, c, cv, rv) ==
    /\ task[t].pc = "idle"
    /\ \A s \in 1..(t - 1) : task[s].pc # "idle"   \* tasks are taken in order
    /\ conn[c].phase = "open"
    /\ ~Busy(c)
    /\ ~panicked[conn[c].pod]
    /\ LET r == [IdleTask EXCEPT !.op = "send", !.pod = conn[c].pod, !.client = c,
                                 !.user = conn[c].UserID, !.req_conv = cv,
                                 !.req_recv = rv, !.conv = cv,
                                 !.gone = IF cv \in ConvIds
                                          THEN {u \in Users :
                                                conversation_members[<<cv, u>>].state = "left"}
                                          ELSE {}]
       IN task' = [task EXCEPT ![t] =
                IF cv = Nil /\ rv # Nil
                THEN IF rv = r.user THEN Fail(r, "cannot send message to yourself")
                     ELSE [r EXCEPT !.pc = "select1"]
                ELSE IF cv = Nil THEN Fail(r, "conversation_id is required")
                ELSE [r EXCEPT !.pc = "isMember"]]
    /\ UNCHANGED <<dbVars, redisVars, settingsVars, hubVars>>

\* getOrCreatePrivateConversation, step 1: the SELECT outside the lock
ResolveSelect(t) ==
    /\ task[t].pc = "select1"
    /\ Alive(t)
    /\ LET r == task[t]
           found == PrivateConversationsOf(r.user, r.req_recv)
       IN \E cv \in (IF found = {} THEN {Nil} ELSE found) :
            task' = [task EXCEPT ![t] =
                IF cv = Nil THEN [r EXCEPT !.pc = "createLock"]
                ELSE [r EXCEPT !.conv = cv, !.pc = "isMember"]]
    /\ UNCHANGED <<dbVars, redisVars, settingsVars, hubVars>>

\* step 2: a SetNX of the retry loop finds the key free
CreateLockAcquire(t) ==
    /\ task[t].pc = "createLock"
    /\ Alive(t)
    /\ CreateLockKey(task[t].user, task[t].req_recv) \notin locks
    /\ locks' = locks \cup {CreateLockKey(task[t].user, task[t].req_recv)}
    /\ task' = [task EXCEPT ![t].pc = "select2"]
    /\ UNCHANGED <<dbVars, offline_msg, online, settingsVars, hubVars>>

\* step 2: every SetNX of the 30 tries found the key set
CreateLockTimeout(t) ==
    /\ task[t].pc = "createLock"
    /\ Alive(t)
    /\ CreateLockKey(task[t].user, task[t].req_recv) \in locks
    /\ task' = [task EXCEPT ![t] =
            Fail(@, "failed to acquire lock for creating conversation")]
    /\ UNCHANGED <<dbVars, redisVars, settingsVars, hubVars>>

\* step 3: the SELECT again, inside the lock
ResolveReselect(t) ==
    /\ task[t].pc = "select2"
    /\ Alive(t)
    /\ LET r == task[t]
           found == PrivateConversationsOf(r.user, r.req_recv)
       IN \E cv \in (IF found = {} THEN {Nil} ELSE found) :
            task' = [task EXCEPT ![t] =
                IF cv = Nil THEN [r EXCEPT !.pc = "create"]
                ELSE [r EXCEPT !.conv = cv, !.pc = "createUnlock"]]
    /\ UNCHANGED <<dbVars, redisVars, settingsVars, hubVars>>

\* step 4: the transaction that inserts the conversation and its two members
createPrivateConversation(t) ==
    /\ task[t].pc = "create"
    /\ Alive(t)
    /\ FreeConvIds # {}
    /\ LET r == task[t]
           cv == CHOOSE c \in FreeConvIds : \A d \in FreeConvIds : c <= d
       IN /\ conversations' = [conversations EXCEPT ![cv] =
                [conversation_type |-> "private", last_message_id |-> Nil]]
          /\ conversation_members' = [conversation_members EXCEPT
                ![<<cv, r.user>>] = NewMember("member"),
                ![<<cv, r.req_recv>>] = NewMember("member")]
          /\ task' = [task EXCEPT ![t] =
                [r EXCEPT !.conv = cv, !.justCreated = TRUE, !.pc = "createUnlock"]]
    /\ UNCHANGED <<messages, user_relationships, now, redisVars, settingsVars, hubVars>>

\* step 5: the deferred DEL of the lock key, whoever holds it by now
CreateLockRelease(t) ==
    /\ task[t].pc = "createUnlock"
    /\ Alive(t)
    /\ locks' = locks \ {CreateLockKey(task[t].user, task[t].req_recv)}
    /\ task' = [task EXCEPT ![t].pc = "isMember"]
    /\ UNCHANGED <<dbVars, offline_msg, online, settingsVars, hubVars>>

\* the pc after the block check: the first-message gate is skipped for the
\* send that has just created the conversation
Gate(r) == IF r.justCreated THEN "loadMembers" ELSE "gate"

CheckMember(t) ==
    /\ task[t].pc = "isMember"
    /\ Alive(t)
    /\ LET r == task[t]
       IN task' = [task EXCEPT ![t] =
            IF ~isConversationMember(r.conv, r.user)
            THEN Fail(r, "user is not a member of this conversation")
            ELSE IF r.req_recv # Nil THEN [r EXCEPT !.pc = "isBlocked"]
            ELSE [r EXCEPT !.pc = Gate(r)]]
    /\ UNCHANGED <<dbVars, redisVars, settingsVars, hubVars>>

CheckBlocked(t) ==
    /\ task[t].pc = "isBlocked"
    /\ Alive(t)
    /\ LET r == task[t]
       IN task' = [task EXCEPT ![t] =
            IF isBlocked(r.user, r.req_recv)
            THEN Fail(r, "you are blocked by this user")
            ELSE [r EXCEPT !.pc = Gate(r)]]
    /\ UNCHANGED <<dbVars, redisVars, settingsVars, hubVars>>

\* the flag is on and a SetNX of the 3 tries finds lock:send_msg free
SendLockAcquire(t) ==
    /\ task[t].pc = "gate"
    /\ Alive(t)
    /\ IsFeatureEnabled("enable_first_message_limit")
    /\ SendLockKey(task[t].conv, task[t].user) \notin locks
    /\ locks' = locks \cup {SendLockKey(task[t].conv, task[t].user)}
    /\ task' = [task EXCEPT ![t].pc = "canSend", ![t].locked = TRUE]
    /\ UNCHANGED <<dbVars, offline_msg, online, settingsVars, hubVars>>

SendLockTimeout(t) ==
    /\ task[t].pc = "gate"
    /\ Alive(t)
    /\ IsFeatureEnabled("enable_first_message_limit")
    /\ SendLockKey(task[t].conv, task[t].user) \in locks
    /\ task' = [task EXCEPT ![t] = Fail(@, "failed to acquire lock, please try again")]
    /\ UNCHANGED <<dbVars, redisVars, settingsVars, hubVars>>

\* the flag is off: the else-branch calls CheckCanSend without a lock
CanSendNoLock(t) ==
    /\ task[t].pc = "gate"
    /\ Alive(t)
    /\ ~IsFeatureEnabled("enable_first_message_limit")
    /\ LET r == task[t]
       IN task' = [task EXCEPT ![t] =
            IF CheckCanSend(r.user, r.conv) THEN [r EXCEPT !.pc = "loadMembers"]
            ELSE Fail(r, "first message limit")]
    /\ UNCHANGED <<dbVars, redisVars, settingsVars, hubVars>>

\* CheckCanSend inside the lock
CanSendInLock(t) ==
    /\ task[t].pc = "canSend"
    /\ Alive(t)
    /\ LET r == task[t]
       IN task' = [task EXCEPT ![t] =
            IF CheckCanSend(r.user, r.conv) THEN [r EXCEPT !.pc = "loadMembers"]
            ELSE Fail(r, "first message limit")]
    /\ UNCHANGED <<dbVars, redisVars, settingsVars, hubVars>>

\* the rows the send will update and notify: WHERE conversation_id = ? AND
\* user_id != ?  (the query has no left_at condition)
MembersToNotify(cv, sender) == {u \in Users \ {sender} : HasRow(cv, u)}

\* step 7, the query: the rows come with their unread_count as of now
LoadMembers(t) ==
    /\ task[t].pc = "loadMembers"
    /\ Alive(t)
    /\ LET r == task[t]
           ms == MembersToNotify(r.conv, r.user)
       IN task' = [task EXCEPT ![t] =
            [r EXCEPT !.members = ms, !.todo = ms,
                      !.munread = [u \in Users |->
                          IF u \in ms THEN conversation_members[<<r.conv, u>>].unread_count
                          ELSE 0],
                      !.pc = IF ms = {} THEN "transaction" ELSE "snapshot"]]
    /\ UNCHANGED <<dbVars, redisVars, settingsVars, hubVars>>

\* SnapshotViewing that never asks the hub: isViewing stays false
SnapshotViewing_NotAsked(t) ==
    /\ task[t].pc = "snapshot"
    /\ Alive(t)
    /\ \E u \in task[t].todo :
        LET r == task[t]
            rest == r.todo \ {u}
        IN task' = [task EXCEPT ![t] =
                [r EXCEPT !.todo = rest,
                          !.pc = IF rest = {} THEN "transaction" ELSE "snapshot"]]
    /\ UNCHANGED <<dbVars, redisVars, settingsVars, hubVars>>

\* step 7, memberViewingStatus: one iteration of the loop over the members,
\* which asks the hub of this replica whether the member is viewing now
SnapshotViewing(t) ==
    /\ task[t].pc = "snapshot"
    /\ Alive(t)
    /\ \E u \in task[t].todo :
        LET r == task[t]
            rest == r.todo \ {u}
            isViewing == IsUserInConversation(r.pod, u, r.conv)
        IN task' = [task EXCEPT ![t] =
                [r EXCEPT !.viewing = IF isViewing THEN @ \cup {u} ELSE @,
                          !.todo = rest,
                          !.pc = IF rest = {} THEN "transaction" ELSE "snapshot"]]
    /\ UNCHANGED <<dbVars, redisVars, settingsVars, hubVars>>

\* UpdatedMember without the `if !isViewing` around the increment
UpdatedMember_AlwaysIncrement(row, isViewing) ==
    [row EXCEPT !.is_hidden = FALSE, !.unread_count = @ + 1]

\* the UPDATE of one member row in step 8.3
UpdatedMember(row, isViewing) ==
    [row EXCEPT !.is_hidden = FALSE,
                !.unread_count = IF isViewing THEN @ ELSE @ + 1]

\* step 8.1: tx.Create(message).  The autoCreateTime field CreatedAt gets
\* time.Now() as the statement is built; the inserted row is visible to
\* nobody else until the transaction commits
TransactionCreate(t) ==
    /\ task[t].pc = "transaction"
    /\ Alive(t)
    /\ task' = [task EXCEPT ![t].created_at = now, ![t].pc = "commit"]
    /\ UNCHANGED <<dbVars, redisVars, settingsVars, hubVars>>

\* steps 8.2 and 8.3 and the commit: the UPDATE of the conversation row
\* takes its row lock, which is held to the commit, so that concurrent sends
\* to a conversation commit one after the other from here on
Transaction(t) ==
    /\ task[t].pc = "commit"
    /\ Alive(t)
    /\ LET r == task[t]
           id == Len(messages) + 1
       IN /\ messages' = Append(messages,
                [conversation_id |-> r.conv, sender_id |-> r.user,
                 created_at |-> r.created_at, is_recalled |-> FALSE,
                 recalled_at |-> Nil])
          /\ conversations' = [conversations EXCEPT ![r.conv].last_message_id = id]
          /\ conversation_members' = [k \in DOMAIN conversation_members |->
                IF k[1] = r.conv /\ k[2] \in r.members
                THEN UpdatedMember(conversation_members[k], k[2] \in r.viewing)
                ELSE conversation_members[k]]
          /\ task' = [task EXCEPT ![t] =
                [r EXCEPT !.msg = id, !.todo = r.members,
                          !.pc = IF r.members = {} THEN AfterSend(r) ELSE "fanOut"]]
    /\ UNCHANGED <<user_relationships, now, redisVars, settingsVars, hubVars>>

\* step 10, one iteration of the loop over members: RPUSH to the offline
\* list, then the conversation_update and unread_count_update broadcasts
FanOut(t) ==
    /\ task[t].pc = "fanOut"
    /\ Alive(t)
    /\ \E u \in task[t].todo :
        LET r == task[t]
            unreadCount == IF u \in r.viewing THEN r.munread[u] ELSE r.munread[u] + 1
            rest == r.todo \ {u}
        IN /\ offline_msg' = [offline_msg EXCEPT ![u] = Append(@, r.msg)]
           /\ task' = [task EXCEPT ![t] =
                WithCalls([r EXCEPT !.todo = rest],
                    << Call(u, Frame("conversation_update", r.conv, r.msg, unreadCount, "")),
                       Call(u, Frame("unread_count_update", r.conv, Nil, unreadCount, "")) >>,
                    IF rest = {} THEN AfterSend(r) ELSE "fanOut")]
    /\ UNCHANGED <<dbVars, locks, online, settingsVars, hubVars>>

\* the deferred DEL of lock:send_msg when SendMessage returns
SendLockRelease(t) ==
    /\ task[t].pc = "unlock"
    /\ Alive(t)
    /\ LET r == task[t]
       IN /\ locks' = locks \ {SendLockKey(r.conv, r.user)}
          /\ task' = [task EXCEPT ![t] =
                [r EXCEPT !.locked = FALSE, !.pc = AfterSend([r EXCEPT !.locked = FALSE])]]
    /\ UNCHANGED <<dbVars, offline_msg, online, settingsVars, hubVars>>

\* handleSendMessage after a successful SendMessage: GetConversationMembers
HandlerMembers(t) ==
    /\ task[t].pc = "handlerMembers"
    /\ Alive(t)
    /\ LET r == task[t]
           ms == ActiveMembers(r.conv)
       IN task' = [task EXCEPT ![t] =
            [r EXCEPT !.todo = ms, !.pc = IF ms = {} THEN "done" ELSE "handlerPush"]]
    /\ UNCHANGED <<dbVars, redisVars, settingsVars, hubVars>>

\* one iteration of its loop: CheckCanSend for the member, then the message frame
HandlerPush(t) ==
    /\ task[t].pc = "handlerPush"
    /\ Alive(t)
    /\ \E u \in task[t].todo :
        LET r == task[t]
            canSend == IF CheckCanSend(u, r.conv) THEN 1 ELSE 0
            rest == r.todo \ {u}
        IN task' = [task EXCEPT ![t] =
                WithCalls([r EXCEPT !.todo = rest],
                    << Call(u, Frame("message", r.conv, r.msg, canSend, "")) >>,
                    IF rest = {} THEN "done" ELSE "handlerPush")]
    /\ UNCHANGED <<dbVars, redisVars, settingsVars, hubVars>>

\* ------------------------------------------------------------- Client frames
\* handleSetCurrentConversation: readPump of c reads set_current_conversation
handleSetCurrentConversation(c, cv) ==
    /\ conn[c].phase = "open"
    /\ ~Busy(c)
    /\ ~panicked[conn[c].pod]
    /\ CurrentConversationID[c] # cv
    /\ CurrentConversationID' = [CurrentConversationID EXCEPT ![c] = cv]
    /\ UNCHANGED <<dbVars, redisVars, settingsVars, Clients, conn, Send, chanCap,
                   closed, written, unregistering, dropped, panicked, task>>

\* ------------------------------------------------------------ initial states
\* the clients in cs are connected and registered, nothing is in flight
HubWith(cs, capacity) ==
    /\ Clients = [p \in Pods |-> {c \in DOMAIN cs : cs[c].pod = p}]
    /\ conn = [c \in ClientIds |->
                IF c \in DOMAIN cs
                THEN [phase |-> "open", UserID |-> cs[c].UserID, pod |-> cs[c].pod,
                      replay |-> "done", list |-> <<>>]
                ELSE NoConn]
    /\ Send = [c \in ClientIds |-> <<>>]
    /\ chanCap = [c \in ClientIds |-> capacity]
    /\ closed = [c \in ClientIds |-> FALSE]
    /\ CurrentConversationID = [c \in ClientIds |-> Nil]
    /\ written = [c \in ClientIds |-> <<>>]
    /\ unregistering = {}
    /\ dropped = {}
    /\ panicked = [p \in Pods |-> FALSE]

Device(u, p) == [UserID |-> u, pod |-> p]

\* ConversationService.LeaveGroup / RemoveMemberFromGroup: the membership
\* row of a member who is not the owner gets left_at
LeaveGroup(u, cv) ==
    /\ conversations[cv].conversation_type = "group"
    /\ IsActive(cv, u)
    /\ conversation_members[<<cv, u>>].role # "owner"
    /\ conversation_members' = [conversation_members EXCEPT ![<<cv, u>>].state = "left"]
    /\ UNCHANGED <<conversations, messages, user_relationships, now, redisVars,
                   settingsVars, hubVars, task>>

\* --------------------------------------------- first private sends (Spec)
\* Users 1 and 2 have exchanged no message.  Their private conversation does
\* not exist yet, or it has just been created over HTTP
\* (POST /conversations/private).  User 1 is connected with two devices, one
\* on each replica, user 2 with one.
PrivateStore(exists) ==
    /\ conversations = [c \in ConvIds |->
            IF exists /\ c = 1
            THEN [conversation_type |-> "private", last_message_id |-> Nil]
            ELSE NoConversation]
    /\ conversation_members = [k \in ConvIds \X Users |->
            IF exists /\ k[1] = 1 /\ k[2] \in {1, 2} THEN NewMember("member")
            ELSE NoMember]
    /\ messages = <<>>
    /\ user_relationships = {}
    /\ now = 0
    /\ locks = {}
    /\ offline_msg = [u \in Users |-> <<>>]
    /\ online = {}

Init ==
    /\ \E exists \in BOOLEAN : PrivateStore(exists)
    /\ settingsCache \in [{"enable_first_message_limit"} -> BOOLEAN]
    /\ convSettingsCache = settingsCache
    /\ system_settings = settingsCache
    /\ HubWith(1 :> Device(1, 1) @@ 2 :> Device(1, 2) @@ 3 :> Device(2, 1), SendChanCap)
    /\ task = [t \in TaskIds |-> IdleTask]

ResolveSteps(t) ==
    \/ ResolveSelect(t)
    \/ CreateLockAcquire(t)
    \/ CreateLockTimeout(t)
    \/ ResolveReselect(t)
    \/ createPrivateConversation(t)
    \/ CreateLockRelease(t)
    \/ CheckBlocked(t)

PipelineSteps(t) ==
    \/ CheckMember(t)
    \/ SendLockAcquire(t)
    \/ SendLockTimeout(t)
    \/ CanSendNoLock(t)
    \/ CanSendInLock(t)
    \/ LoadMembers(t)
    \/ SnapshotViewing(t)
    \/ TransactionCreate(t)
    \/ Transaction(t)
    \/ FanOut(t)
    \/ SendLockRelease(t)
    \/ HandlerMembers(t)
    \/ HandlerPush(t)
    \/ SendToUserCopy(t)
    \/ SendToUserEnqueue(t)
    \/ sendError(t)

Next ==
    \/ \E t \in TaskIds, c \in ClientIds, rv \in {1, 2} : StartSend(t, c, Nil, rv)
    \/ \E t \in TaskIds : ResolveSteps(t)
    \/ \E t \in TaskIds : PipelineSteps(t)
    \/ \E k \in locks : LockExpire(k)

Spec == Init /\ [][Next]_vars

\* ------------------------------------------------- group sends (SpecGroup)
\* Conversation 1 is a group owned by user 1 with members 2 and 3.  User 1 is
\* connected on replica 1, user 2 on replica 1 or on replica 2, user 3 is
\* offline and may leave the group.  The first-message flag is on.
GroupStore ==
    /\ conversations = [c \in ConvIds |->
            IF c = 1 THEN [conversation_type |-> "group", last_message_id |-> Nil]
            ELSE NoConversation]
    /\ conversation_members = [k \in ConvIds \X Users |->
            IF k[1] # 1 THEN NoMember
            ELSE IF k[2] = 1 THEN NewMember("owner")
            ELSE NewMember("member")]
    /\ messages = <<>>
    /\ user_relationships = {}
    /\ now = 0
    /\ locks = {}
    /\ offline_msg = [u \in Users |-> <<>>]
    /\ online = {}

InitGroup ==
    /\ GroupStore
    /\ settingsCache = [k \in {"enable_first_message_limit"} |-> TRUE]
    /\ convSettingsCache = settingsCache
    /\ system_settings = settingsCache
    /\ \E p \in Pods : HubWith(1 :> Device(1, 1) @@ 2 :> Device(2, p), SendChanCap)
    /\ task = [t \in TaskIds |-> IdleTask]

GroupSteps(t) ==
    \/ CheckMember(t)
    \/ SendLockAcquire(t)
    \/ CanSendInLock(t)
    \/ LoadMembers(t)
    \/ SnapshotViewing(t)
    \/ TransactionCreate(t)
    \/ Transaction(t)
    \/ FanOut(t)
    \/ SendLockRelease(t)
    \/ HandlerMembers(t)
    \/ HandlerPush(t)
    \/ SendToUserCopy(t)
    \/ SendToUserEnqueue(t)

NextGroup ==
    \/ \E t \in TaskIds, c \in ClientIds : StartSend(t, c, 1, Nil)
    \/ \E t \in TaskIds : GroupSteps(t)
    \/ \E c \in ClientIds, cv \in {Nil, 1} : handleSetCurrentConversation(c, cv)
    \/ LeaveGroup(3, 1)
    \/ \E k \in locks : LockExpire(k)

SpecGroup == InitGroup /\ [][NextGroup]_vars

\* ------------------------------------------------------- the hub (SpecHub)
Registered(c) == conn[c].phase # "none" /\ c \in Clients[conn[c].pod]

TooManyDevices == Frame("error", Nil, Nil, 0, "too_many_devices")
CloseFrame == Frame("close", Nil, Nil, 0, "")

\* Register letting a client in while the user already has the maximum
Register_OffByOne(c, u, p) ==
    LET reject == Cardinality(ClientsOfUser(p, u)) > MaxConnectionsPerUser
    IN /\ Clients' = IF reject THEN Clients ELSE [Clients EXCEPT ![p] = @ \cup {c}]
       /\ online' = IF ~reject /\ IsFeatureEnabled("enable_online_status")
                    THEN online \cup {u} ELSE online
       /\ conn' = [conn EXCEPT ![c] =
                [phase |-> IF reject THEN "rejected" ELSE "open", UserID |-> u,
                 pod |-> p, replay |-> "start", list |-> <<>>]]
       /\ written' = IF reject
                     THEN [written EXCEPT ![c] = <<TooManyDevices, CloseFrame>>]
                     ELSE written

\* Hub.Register: under h.mu the count is compared with the maximum and the
\* client inserted; a client over the maximum gets the error frame and the
\* close frame written to its socket, which is then closed
Register(c, u, p) ==
    LET reject == Cardinality(ClientsOfUser(p, u)) >= MaxConnectionsPerUser
    IN /\ Clients' = IF reject THEN Clients ELSE [Clients EXCEPT ![p] = @ \cup {c}]
       /\ online' = IF ~reject /\ IsFeatureEnabled("enable_online_status")
                    THEN online \cup {u} ELSE online
       /\ conn' = [conn EXCEPT ![c] =
                [phase |-> IF reject THEN "rejected" ELSE "open", UserID |-> u,
                 pod |-> p, replay |-> "start", list |-> <<>>]]
       /\ written' = IF reject
                     THEN [written EXCEPT ![c] = <<TooManyDevices, CloseFrame>>]
                     ELSE written

\* HandleWebSocket: a new Client for user u on replica p is made and
\* registered; sendOfflineMessages, readPump and writePump are started
\* whatever Register did
HandleWebSocket(c, u, p) ==
    /\ conn[c].phase = "none"
    /\ \A d \in 1..(c - 1) : conn[d].phase # "none"   \* client ids in order
    /\ \A q \in 1..(p - 1) : \E d \in ClientIds : conn[d].pod = q   \* replicas too
    /\ ~panicked[p]
    /\ Register(c, u, p)
    /\ UNCHANGED <<dbVars, locks, offline_msg, settingsVars, Send, chanCap, closed,
                   CurrentConversationID, unregistering, dropped, panicked, task>>

\* Hub.Unregister, under h.mu: the client leaves the map if it is in it
UnregisterRemove(c) == [Clients EXCEPT ![conn[c].pod] = @ \ {c}]

\* Hub.Unregister, still under h.mu: when the client was in the map and was
\* the user's last one in it, DEL online:{user} if the feature is on
UnregisterPresence(c) ==
    IF /\ Registered(c)
       /\ ClientsOfUser(conn[c].pod, conn[c].UserID) = {c}
       /\ IsFeatureEnabled("enable_online_status")
    THEN online \ {conn[c].UserID}
    ELSE online

\* Hub.Unregister, under client.mu: close(client.Send) unless closed
UnregisterClose(c) == [closed EXCEPT ![c] = TRUE]

\* readPump: ReadMessage fails (the peer went away, the read deadline passed
\* or the socket was closed) and the deferred Unregister starts
ReaderExit(c) ==
    /\ conn[c].phase \in {"open", "rejected"}
    /\ ~Busy(c)
    /\ ~panicked[conn[c].pod]
    /\ Clients' = UnregisterRemove(c)
    /\ online' = UnregisterPresence(c)
    /\ conn' = [conn EXCEPT ![c].phase = "closing"]
    /\ UNCHANGED <<dbVars, locks, offline_msg, settingsVars, Send, chanCap, closed,
                   CurrentConversationID, written, unregistering, dropped, panicked, task>>

\* readPump: the deferred Unregister closes the channel, then Conn.Close
ReaderClose(c) ==
    /\ conn[c].phase = "closing"
    /\ ~panicked[conn[c].pod]
    /\ closed' = UnregisterClose(c)
    /\ conn' = [conn EXCEPT ![c].phase = "gone"]
    /\ UNCHANGED <<dbVars, redisVars, settingsVars, Clients, Send, chanCap,
                   CurrentConversationID, written, unregistering, dropped, panicked, task>>

\* the goroutine of `go h.Unregister(client)` started by a full channel
AsyncUnregisterRemove(c) ==
    /\ c \in unregistering
    /\ Registered(c)
    /\ ~panicked[conn[c].pod]
    /\ Clients' = UnregisterRemove(c)
    /\ online' = UnregisterPresence(c)
    /\ UNCHANGED <<dbVars, locks, offline_msg, settingsVars, conn, Send, chanCap, closed,
                   CurrentConversationID, written, unregistering, dropped, panicked, task>>

AsyncUnregisterClose(c) ==
    /\ c \in unregistering
    /\ ~Registered(c)
    /\ ~panicked[conn[c].pod]
    /\ closed' = UnregisterClose(c)
    /\ unregistering' = unregistering \ {c}
    /\ UNCHANGED <<dbVars, redisVars, settingsVars, Clients, conn, Send, chanCap,
                   CurrentConversationID, written, dropped, panicked, task>>

\* writePump taking the frame enqueued last instead of the oldest one
writePump_NewestFirst(c) ==
    /\ conn[c].phase \in {"open", "blocked", "closing"}
    /\ ~panicked[conn[c].pod]
    /\ Send[c] # <<>>
    /\ written' = [written EXCEPT ![c] = Append(@, Send[c][Len(Send[c])])]
    /\ Send' = [Send EXCEPT ![c] = SubSeq(@, 1, Len(@) - 1)]
    /\ UNCHANGED <<dbVars, redisVars, settingsVars, Clients, conn, chanCap, closed,
                   CurrentConversationID, unregistering, dropped, panicked, task>>

\* writePump takes one frame from the channel and writes it to the socket;
\* frames buffered in a closed channel are still received
writePump(c) ==
    /\ conn[c].phase \in {"open", "blocked", "closing"}
    /\ ~panicked[conn[c].pod]
    /\ Send[c] # <<>>
    /\ written' = [written EXCEPT ![c] = Append(@, Head(Send[c]))]
    /\ Send' = [Send EXCEPT ![c] = Tail(@)]
    /\ UNCHANGED <<dbVars, redisVars, settingsVars, Clients, conn, chanCap, closed,
                   CurrentConversationID, unregistering, dropped, panicked, task>>

InvalidJSON == Frame("error", Nil, Nil, 0, "Invalid JSON format")

\* how many replies to frames that were not JSON client c has been sent
BadFrames(c) ==
    Cardinality({i \in 1..Len(Send[c]) : Send[c][i] = InvalidJSON})
        + Cardinality({i \in 1..Len(written[c]) : written[c][i] = InvalidJSON})

\* readPump reads a frame that is not JSON: `c.Send <- responseData`, a
\* blocking send.  With the channel full readPump waits in the send.
readPumpInvalidJSON(c) ==
    /\ conn[c].phase \in {"open", "blocked"}
    /\ ~Busy(c)
    /\ conn[c].phase = "open" => BadFrames(c) < MaxBadFrames
    /\ ~panicked[conn[c].pod]
    /\ LET res == ChanSend(c, InvalidJSON, "block")
       IN /\ conn[c].phase = "blocked" => res # "block"
          /\ Send' = IF res = "sent" THEN [Send EXCEPT ![c] = Append(@, InvalidJSON)]
                     ELSE Send
          /\ panicked' = IF res = "panic" THEN [panicked EXCEPT ![conn[c].pod] = TRUE]
                         ELSE panicked
          /\ conn' = [conn EXCEPT ![c].phase = IF res = "block" THEN "blocked" ELSE "open"]
    /\ UNCHANGED <<dbVars, redisVars, settingsVars, Clients, chanCap, closed,
                   CurrentConversationID, written, unregistering, dropped, task>>

OfflineFrame(id) == Frame("offline_message", Nil, id, 0, "")

\* sendOfflineMessages: LRANGE offline_msg:{user} 0 -1
sendOfflineMessagesRange(c) ==
    /\ conn[c].replay = "start"
    /\ ~panicked[conn[c].pod]
    /\ LET l == offline_msg[conn[c].UserID]
       IN conn' = [conn EXCEPT ![c].list = l,
                               ![c].replay = IF l = <<>> THEN "done" ELSE "send"]
    /\ UNCHANGED <<dbVars, redisVars, settingsVars, Clients, Send, chanCap, closed,
                   CurrentConversationID, written, unregistering, dropped, panicked, task>>

\* sendOfflineMessages: one iteration of the loop, a non-blocking send
sendOfflineMessagesSend(c) ==
    /\ conn[c].replay = "send"
    /\ ~panicked[conn[c].pod]
    /\ LET f == OfflineFrame(Head(conn[c].list))
           res == ChanSend(c, f, "drop")
           rest == Tail(conn[c].list)
       IN /\ Send' = IF res = "sent" THEN [Send EXCEPT ![c] = Append(@, f)] ELSE Send
          /\ panicked' = IF res = "panic" THEN [panicked EXCEPT ![conn[c].pod] = TRUE]
                         ELSE panicked
          /\ dropped' = IF res = "drop" THEN dropped \cup {c} ELSE dropped
          /\ conn' = [conn EXCEPT ![c].list = rest,
                                  ![c].replay = IF rest = <<>> THEN "del" ELSE "send"]
    /\ UNCHANGED <<dbVars, redisVars, settingsVars, Clients, chanCap, closed,
                   CurrentConversationID, written, unregistering, task>>

\* sendOfflineMessages: DEL offline_msg:{user}
sendOfflineMessagesDel(c) ==
    /\ conn[c].replay = "del"
    /\ ~panicked[conn[c].pod]
    /\ offline_msg' = [offline_msg EXCEPT ![conn[c].UserID] = <<>>]
    /\ conn' = [conn EXCEPT ![c].replay = "done"]
    /\ UNCHANGED <<dbVars, locks, online, settingsVars, Clients, Send, chanCap, closed,
                   CurrentConversationID, written, unregistering, dropped, panicked, task>>

\* a caller on replica p (SendNotification and its siblings) broadcasts a
\* frame to user u; the frame carries the task's number
StartBroadcast(t, p, u) ==
    /\ task[t].pc = "idle"
    /\ \A s \in 1..(t - 1) : task[s].pc # "idle"
    /\ ~panicked[p]
    /\ task' = [task EXCEPT ![t] =
            [IdleTask EXCEPT !.op = "broadcast", !.pod = p, !.user = u,
                !.pc = "SendToUser", !.ret = "done",
                !.bq = << Call(u, Frame("notification", Nil, t, 0, "")) >>,
                !.devs = {c \in ClientIds : Registered(c) /\ conn[c].UserID = u}]]
    /\ UNCHANGED <<dbVars, redisVars, settingsVars, hubVars>>

\* POST /logout on replica p: Hub.ForceOffline runs DEL online:{user} if the
\* feature is on and copies the user's clients under h.mu.RLock
ForceOffline(t, p, u) ==
    /\ task[t].pc = "idle"
    /\ \A s \in 1..(t - 1) : task[s].pc # "idle"
    /\ ~panicked[p]
    /\ online' = IF IsFeatureEnabled("enable_online_status") THEN online \ {u}
                 ELSE online
    /\ LET cs == ClientsOfUser(p, u)
       IN task' = [task EXCEPT ![t] =
            [IdleTask EXCEPT !.op = "logout", !.pod = p, !.user = u, !.copy = cs,
                !.pc = IF cs = {} THEN "done" ELSE "forceRemove"]]
    /\ UNCHANGED <<dbVars, locks, offline_msg, settingsVars, hubVars>>

\* ForceOffline, one iteration of the loop: Unregister under h.mu
ForceOfflineRemove(t) ==
    /\ task[t].pc = "forceRemove"
    /\ Alive(t)
    /\ \E c \in task[t].copy :
        /\ Clients' = UnregisterRemove(c)
        /\ online' = UnregisterPresence(c)
        /\ task' = [task EXCEPT ![t].cur = c, ![t].pc = "forceClose"]
    /\ UNCHANGED <<dbVars, locks, offline_msg, settingsVars, conn, Send, chanCap, closed,
                   CurrentConversationID, written, unregistering, dropped, panicked>>

\* ForceOffline: Unregister under client.mu
ForceOfflineClose(t) ==
    /\ task[t].pc = "forceClose"
    /\ Alive(t)
    /\ LET r == task[t]
           rest == r.copy \ {r.cur}
       IN /\ closed' = UnregisterClose(r.cur)
          /\ task' = [task EXCEPT ![t] =
                [r EXCEPT !.copy = rest, !.cur = Nil,
                          !.pc = IF rest = {} THEN "done" ELSE "forceRemove"]]
    /\ UNCHANGED <<dbVars, redisVars, settingsVars, Clients, conn, Send, chanCap,
                   CurrentConversationID, written, unregistering, dropped, panicked>>

\* POST /logout on replica p by the authenticated user u: the handler takes
\* the user id from the header X-User-ID (Nil: no such header) and calls
\* ForceOffline with it only if it is there and enable_online_status is on;
\* the answer is "Logged out" either way
Logout(t, p, u, header) ==
    IF header # Nil /\ IsFeatureEnabled("enable_online_status")
    THEN ForceOffline(t, p, header)
    ELSE /\ task[t].pc = "idle"
         /\ \A s \in 1..(t - 1) : task[s].pc # "idle"
         /\ ~panicked[p]
         /\ task' = [task EXCEPT ![t] =
                [IdleTask EXCEPT !.op = "logout", !.pod = p, !.user = u, !.pc = "done"]]
         /\ UNCHANGED <<dbVars, redisVars, settingsVars, hubVars>>

\* Conversation 1 is a group of users 1, 2 and 3 in which user 2 has sent
\* message 1 while the others were offline.  No client is connected.
HubStore ==
    /\ conversations = [c \in ConvIds |->
            IF c = 1 THEN [conversation_type |-> "group", last_message_id |-> 1]
            ELSE NoConversation]
    /\ conversation_members = [k \in ConvIds \X Users |->
            IF k[1] # 1 THEN NoMember
            ELSE IF k[2] = 1 THEN [NewMember("owner") EXCEPT !.unread_count = 1]
            ELSE IF k[2] = 2 THEN NewMember("member")
            ELSE [NewMember("member") EXCEPT !.unread_count = 1]]
    /\ messages = << [conversation_id |-> 1, sender_id |-> 2, created_at |-> 0,
                      is_recalled |-> FALSE, recalled_at |-> Nil] >>
    /\ user_relationships = {}
    /\ now = 0
    /\ locks = {}
    /\ offline_msg = [u \in Users |-> IF u = 2 THEN <<>> ELSE <<1>>]
    /\ online = {}

InitHub ==
    /\ HubStore
    /\ settingsCache = [k \in {"enable_first_message_limit", "enable_online_status"} |-> TRUE]
    /\ convSettingsCache = settingsCache
    /\ system_settings = settingsCache
    /\ HubWith(<<>>, HubChanCap)
    /\ task = [t \in TaskIds |-> IdleTask]

HubUsers == {1}

\* connections, disconnections, forced logout, offline replay
NextHub ==
    \/ \E c \in ClientIds, u \in HubUsers, p \in Pods : HandleWebSocket(c, u, p)
    \/ \E c \in ClientIds : ReaderExit(c)
    \/ \E c \in ClientIds : ReaderClose(c)
    \/ \E c \in ClientIds : sendOfflineMessagesRange(c)
    \/ \E c \in ClientIds : sendOfflineMessagesSend(c)
    \/ \E c \in ClientIds : sendOfflineMessagesDel(c)
    \/ \E t \in 1..NumLogouts, p \in Pods, u \in HubUsers :
            \E header \in {u, Nil} : Logout(t, p, u, header)
    \/ \E t \in TaskIds : ForceOfflineRemove(t)
    \/ \E t \in TaskIds : ForceOfflineClose(t)

SpecHub == InitHub /\ [][NextHub]_vars

\* ------------------------------------------- outbound channels (SpecFifo)
\* User 1 has two devices, both on replica 1 or one on each replica; their
\* offline replay is over.
InitFifo ==
    /\ HubStore
    /\ settingsCache = [k \in {"enable_first_message_limit"} |-> TRUE]
    /\ convSettingsCache = settingsCache
    /\ system_settings = settingsCache
    /\ \E p \in Pods : HubWith(1 :> Device(1, 1) @@ 2 :> Device(1, p), HubChanCap)
    /\ task = [t \in TaskIds |-> IdleTask]

NextFifo ==
    \/ \E t \in TaskIds, p \in Pods, u \in HubUsers : StartBroadcast(t, p, u)
    \/ \E t \in TaskIds, c \in ClientIds : StartSend(t, c, Nil, Nil)
    \/ \E t \in TaskIds : SendToUserCopy(t)
    \/ \E t \in TaskIds : SendToUserEnqueue(t)
    \/ \E t \in TaskIds : sendError(t)
    \/ \E c \in ClientIds : writePump(c)
    \/ \E c \in ClientIds : readPumpInvalidJSON(c)
    \/ \E c \in ClientIds : ReaderExit(c)
    \/ \E c \in ClientIds : ReaderClose(c)
    \/ \E c \in ClientIds : AsyncUnregisterRemove(c)
    \/ \E c \in ClientIds : AsyncUnregisterClose(c)

SpecFifo == InitFifo /\ [][NextFifo]_vars

\* every goroutine that can take a step eventually takes one; what the peers
\* do (sending frames, going away) is under no obligation
SpecFifoFair ==
    /\ SpecFifo
    /\ \A t \in TaskIds : WF_vars(SendToUserCopy(t) \/ SendToUserEnqueue(t) \/ sendError(t))
    /\ \A c \in ClientIds : WF_vars(AsyncUnregisterRemove(c) \/ AsyncUnregisterClose(c))
    /\ \A c \in ClientIds : WF_vars(ReaderClose(c))

\* ---------------------------------------------------------- recall (SpecRecall)
\* readPump of client c reads a "recall" frame: handleRecallMessage calls
\* GetMessageByID
handleRecallMessage(t, c, m) ==
    /\ task[t].pc = "idle"
    /\ \A s \in 1..(t - 1) : task[s].pc # "idle"
    /\ conn[c].phase = "open"
    /\ ~Busy(c)
    /\ ~panicked[conn[c].pod]
    /\ LET r == [IdleTask EXCEPT !.op = "recall", !.pod = conn[c].pod, !.client = c,
                                 !.user = conn[c].UserID, !.msg = m]
       IN task' = [task EXCEPT ![t] =
                IF m \notin DOMAIN messages THEN Fail(r, "Message not found")
                ELSE [r EXCEPT !.conv = messages[m].conversation_id, !.pc = "recallRead"]]
    /\ UNCHANGED <<dbVars, redisVars, settingsVars, hubVars>>

\* POST /messages/:id/recall served by replica p for the authenticated user
\* u: MessageHandler.RecallMessage calls GetMessageByID
MessageHandlerRecallMessage(t, p, u, m) ==
    /\ task[t].pc = "idle"
    /\ \A s \in 1..(t - 1) : task[s].pc # "idle"
    /\ ~panicked[p]
    /\ LET r == [IdleTask EXCEPT !.op = "recall", !.pod = p, !.user = u, !.msg = m]
       IN task' = [task EXCEPT ![t] =
                IF m \notin DOMAIN messages THEN Fail(r, "Message not found")
                ELSE [r EXCEPT !.conv = messages[m].conversation_id, !.pc = "recallRead"]]
    /\ UNCHANGED <<dbVars, redisVars, settingsVars, hubVars>>

\* the HTTP status MessageHandler.RecallMessage answers an error with
RecallStatus(errMsg) ==
    IF errMsg = "" THEN 200
    ELSE IF errMsg \in {"message not found", "Message not found"} THEN 404
    ELSE IF errMsg = "you can only recall your own messages" THEN 403
    ELSE IF errMsg = "can only recall messages within 2 minutes" THEN 400
    ELSE IF errMsg = "message already recalled" THEN 400
    ELSE 500

\* RecallRead without the check of the sender
RecallRead_AnyCaller(t) ==
    /\ task[t].pc = "recallRead"
    /\ Alive(t)
    /\ LET r == task[t]
           row == messages[r.msg]
       IN task' = [task EXCEPT ![t] =
                IF row.is_recalled THEN Fail(r, "message already recalled")
                ELSE [r EXCEPT !.pc = "recallElapsed"]]
    /\ UNCHANGED <<dbVars, redisVars, settingsVars, hubVars>>

\* RecallMessage: the row is read, then sender and is_recalled are checked
\* on the row as read
RecallRead(t) ==
    /\ task[t].pc = "recallRead"
    /\ Alive(t)
    /\ LET r == task[t]
           row == messages[r.msg]
       IN task' = [task EXCEPT ![t] =
                IF row.sender_id # r.user
                THEN Fail(r, "you can only recall your own messages")
                ELSE IF row.is_recalled THEN Fail(r, "message already recalled")
                ELSE [r EXCEPT !.pc = "recallElapsed"]]
    /\ UNCHANGED <<dbVars, redisVars, settingsVars, hubVars>>

\* RecallMessage: SELECT EXTRACT(EPOCH FROM (NOW() - created_at))
RecallElapsed(t) ==
    /\ task[t].pc = "recallElapsed"
    /\ Alive(t)
    /\ LET r == task[t]
           elapsedSeconds == now - messages[r.msg].created_at
       IN task' = [task EXCEPT ![t] =
                IF elapsedSeconds > RecallWindowSeconds
                THEN Fail(r, "can only recall messages within 2 minutes")
                ELSE [r EXCEPT !.pc = "recallUpdate"]]
    /\ UNCHANGED <<dbVars, redisVars, settingsVars, hubVars>>

\* RecallMessage: UPDATE messages SET is_recalled, recalled_at WHERE id
RecallUpdate(t) ==
    /\ task[t].pc = "recallUpdate"
    /\ Alive(t)
    /\ messages' = [messages EXCEPT ![task[t].msg].is_recalled = TRUE,
                                    ![task[t].msg].recalled_at = now]
    /\ task' = [task EXCEPT ![t].pc = "recallMembers"]
    /\ UNCHANGED <<conversations, conversation_members, user_relationships, now,
                   redisVars, settingsVars, hubVars>>

\* handleRecallMessage after a successful recall: GetConversationMembers
RecallMembers(t) ==
    /\ task[t].pc = "recallMembers"
    /\ Alive(t)
    /\ LET r == task[t]
           ms == ActiveMembers(r.conv)
       IN task' = [task EXCEPT ![t] =
            [r EXCEPT !.todo = ms, !.pc = IF ms = {} THEN "done" ELSE "recallPush"]]
    /\ UNCHANGED <<dbVars, redisVars, settingsVars, hubVars>>

\* one iteration of its loop: the recalled frame for one member
RecallPush(t) ==
    /\ task[t].pc = "recallPush"
    /\ Alive(t)
    /\ \E u \in task[t].todo :
        LET r == task[t]
            rest == r.todo \ {u}
        IN task' = [task EXCEPT ![t] =
                WithCalls([r EXCEPT !.todo = rest],
                    << Call(u, Frame("recalled", r.conv, r.msg, 0, "")) >>,
                    IF rest = {} THEN "done" ELSE "recallPush")]
    /\ UNCHANGED <<dbVars, redisVars, settingsVars, hubVars>>

\* a second passes
Tick ==
    /\ now < RecallWindowSeconds + 1 + MaxTicks
    /\ now' = now + 1
    /\ UNCHANGED <<conversations, conversation_members, messages, user_relationships,
                   redisVars, settingsVars, hubVars, task>>

\* Users 1 and 2 have a private conversation holding one message of user 1,
\* sent just now or RecallWindowSeconds + 1 seconds ago.  User 1 is connected
\* on both replicas, user 2 on replica 1.
RecallStore(age) ==
    /\ conversations = [c \in ConvIds |->
            IF c = 1 THEN [conversation_type |-> "private", last_message_id |-> 1]
            ELSE NoConversation]
    /\ conversation_members = [k \in ConvIds \X Users |->
            IF k[1] = 1 /\ k[2] = 1 THEN NewMember("member")
            ELSE IF k[1] = 1 /\ k[2] = 2
                 THEN [NewMember("member") EXCEPT !.unread_count = 1]
            ELSE NoMember]
    /\ now = RecallWindowSeconds + 1
    /\ messages = << [conversation_id |-> 1, sender_id |-> 1, created_at |-> now - age,
                      is_recalled |-> FALSE, recalled_at |-> Nil] >>
    /\ user_relationships = {}
    /\ locks = {}
    /\ offline_msg = [u \in Users |-> <<>>]
    /\ online = {}

InitRecall ==
    /\ \E age \in {0, RecallWindowSeconds + 1} : RecallStore(age)
    /\ settingsCache = [k \in {"enable_first_message_limit"} |-> TRUE]
    /\ convSettingsCache = settingsCache
    /\ system_settings = settingsCache
    /\ HubWith(1 :> Device(1, 1) @@ 2 :> Device(1, 2) @@ 3 :> Device(2, 1), SendChanCap)
    /\ task = [t \in TaskIds |-> IdleTask]

NextRecall ==
    \/ \E t \in TaskIds, c \in ClientIds, m \in DOMAIN messages : handleRecallMessage(t, c, m)
    \/ \E t \in TaskIds, p \in Pods, u \in {1, 2}, m \in DOMAIN messages :
            MessageHandlerRecallMessage(t, p, u, m)
    \/ \E t \in TaskIds : RecallRead(t)
    \/ \E t \in TaskIds : RecallElapsed(t)
    \/ \E t \in TaskIds : RecallUpdate(t)
    \/ \E t \in TaskIds : RecallMembers(t)
    \/ \E t \in TaskIds : RecallPush(t)
    \/ \E t \in TaskIds : SendToUserCopy(t)
    \/ \E t \in TaskIds : SendToUserEnqueue(t)
    \/ \E t \in TaskIds : sendError(t)
    \/ Tick

SpecRecall == InitRecall /\ [][NextRecall]_vars

\* ------------------------------------------------ blocked senders (SpecBlock)
\* User 2 has blocked user 1 (RelationshipService.BlockUser wrote the row
\* (2, 1, blocked)).  Their private conversation exists, with no message, or
\* does not exist yet.  User 1 is connected on both replicas, user 2 on
\* replica 1.
BlockStore(exists) ==
    /\ conversations = [c \in ConvIds |->
            IF exists /\ c = 1
            THEN [conversation_type |-> "private", last_message_id |-> Nil]
            ELSE NoConversation]
    /\ conversation_members = [k \in ConvIds \X Users |->
            IF exists /\ k[1] = 1 /\ k[2] \in {1, 2} THEN NewMember("member")
            ELSE NoMember]
    /\ messages = <<>>
    /\ user_relationships = {<<2, 1>>}
    /\ now = 0
    /\ locks = {}
    /\ offline_msg = [u \in Users |-> <<>>]
    /\ online = {}

InitBlock ==
    /\ \E exists \in BOOLEAN : BlockStore(exists)
    /\ settingsCache \in [{"enable_first_message_limit"} -> BOOLEAN]
    /\ convSettingsCache = settingsCache
    /\ system_settings = settingsCache
    /\ HubWith(1 :> Device(1, 1) @@ 2 :> Device(1, 2) @@ 3 :> Device(2, 1), SendChanCap)
    /\ task = [t \in TaskIds |-> IdleTask]

\* the blocked user sends, naming the receiver, the conversation or both
NextBlock ==
    \/ \E t \in TaskIds, c \in {1, 2}, cv \in {Nil, 1}, rv \in {Nil, 2} :
            StartSend(t, c, cv, rv)
    \/ \E t \in TaskIds : ResolveSteps(t)
    \/ \E t \in TaskIds : PipelineSteps(t)
    \/ \E k \in locks : LockExpire(k)

SpecBlock == InitBlock /\ [][NextBlock]_vars

\* ------------------------------------------ senders who leave (SpecLeave)
\* The group of GroupStore; users 2 and 3 are connected on replica 1, send
\* to the group and may leave it or be removed from it by the owner at any
\* moment.
InitLeave ==
    /\ GroupStore
    /\ settingsCache = [k \in {"enable_first_message_limit"} |-> TRUE]
    /\ convSettingsCache = settingsCache
    /\ system_settings = settingsCache
    /\ HubWith(1 :> Device(2, 1) @@ 2 :> Device(3, 1), SendChanCap)
    /\ task = [t \in TaskIds |-> IdleTask]

NextLeave ==
    \/ \E t \in TaskIds, c \in ClientIds : StartSend(t, c, 1, Nil)
    \/ \E t \in TaskIds : GroupSteps(t)
    \/ \E t \in TaskIds : sendError(t)
    \/ \E u \in {2, 3} : LeaveGroup(u, 1)
    \/ \E k \in locks : LockExpire(k)

SpecLeave == InitLeave /\ [][NextLeave]_vars

\* --------------------------------------- concurrent sends (SpecOrder)
\* TransactionFail that goes on to the fan-out although the transaction failed
TransactionFail_FanOutAnyway(t) ==
    /\ task[t].pc \in {"transaction", "commit"}
    /\ Alive(t)
    /\ LET r == task[t]
       IN task' = [task EXCEPT ![t] =
            [r EXCEPT !.err = "failed to save message", !.todo = r.members,
                      !.pc = IF r.members = {} THEN "sendError" ELSE "fanOut"]]
    /\ UNCHANGED <<dbVars, redisVars, settingsVars, hubVars>>

\* step 8 fails: a statement of the transaction or its commit returns an
\* error (the database is unavailable), gorm rolls the transaction back and
\* SendMessage returns the error
TransactionFail(t) ==
    /\ task[t].pc \in {"transaction", "commit"}
    /\ Alive(t)
    /\ task' = [task EXCEPT ![t] = Fail(@, "failed to save message")]
    /\ UNCHANGED <<dbVars, redisVars, settingsVars, hubVars>>

\* The private conversation of RecallStore, its one message sent just now;
\* the first-message flag is off, so both users may send.  The clock goes on.
InitOrder ==
    /\ RecallStore(0)
    /\ settingsCache = [k \in {"enable_first_message_limit"} |-> FALSE]
    /\ convSettingsCache = settingsCache
    /\ system_settings = settingsCache
    /\ HubWith(1 :> Device(1, 1) @@ 2 :> Device(1, 2) @@ 3 :> Device(2, 1), SendChanCap)
    /\ task = [t \in TaskIds |-> IdleTask]

OrderSteps(t) ==
    \/ CheckMember(t)
    \/ CanSendNoLock(t)
    \/ LoadMembers(t)
    \/ SnapshotViewing(t)
    \/ TransactionCreate(t)
    \/ Transaction(t)
    \/ TransactionFail(t)
    \/ FanOut(t)
    \/ HandlerMembers(t)
    \/ HandlerPush(t)
    \/ SendToUserCopy(t)
    \/ SendToUserEnqueue(t)
    \/ sendError(t)

NextOrder ==
    \/ \E t \in TaskIds, c \in ClientIds : StartSend(t, c, 1, Nil)
    \/ \E t \in TaskIds : OrderSteps(t)
    \/ Tick

SpecOrder == InitOrder /\ [][NextOrder]_vars

\* ------------------------------------------------------ mark-read (SpecRead)
\* readPump of client c reads a "read" frame: handleMarkAsRead calls
\* MarkAsRead, which first looks the target message up.  When MarkAsRead
\* fails the handler logs the error and returns
handleMarkAsRead(t, c, cv, m) ==
    /\ task[t].pc = "idle"
    /\ \A s \in 1..(t - 1) : task[s].pc # "idle"
    /\ conn[c].phase = "open"
    /\ ~Busy(c)
    /\ ~panicked[conn[c].pod]
    /\ LET r == [IdleTask EXCEPT !.op = "read", !.pod = conn[c].pod, !.client = c,
                                 !.user = conn[c].UserID, !.req_conv = cv,
                                 !.conv = cv, !.msg = m]
       IN task' = [task EXCEPT ![t] =
                IF m \notin DOMAIN messages
                THEN [r EXCEPT !.err = "message not found", !.pc = "done"]
                ELSE [r EXCEPT !.created_at = messages[m].created_at,
                               !.pc = "readUpdate"]]
    /\ UNCHANGED <<dbVars, redisVars, settingsVars, hubVars>>

\* the WHERE of MarkAsRead's UPDATE: the member's row, if its last-read
\* message is unset or not newer than the target
ReadAdvances(row, targetCreatedAt) ==
    /\ row.state # "none"
    /\ \/ row.last_read_message_id = Nil
       \/ ~(/\ row.last_read_message_id \in DOMAIN messages
            /\ messages[row.last_read_message_id].created_at > targetCreatedAt)

\* the pc of handleMarkAsRead after MarkAsRead has returned nil
AfterMarkAsRead == IF IsFeatureEnabled("enable_read_receipt") THEN "readMembers" ELSE "done"

\* MarkAsRead: the UPDATE, and SendUnreadCountUpdate(userID, conv, 0) when a
\* row was updated
MarkAsRead(t) ==
    /\ task[t].pc = "readUpdate"
    /\ Alive(t)
    /\ LET r == task[t]
           k == <<r.conv, r.user>>
           hit == ReadAdvances(conversation_members[k], r.created_at)
       IN /\ conversation_members' =
                IF hit
                THEN [conversation_members EXCEPT
                        ![k].unread_count = 0,
                        ![k].last_read_message_id = r.msg,
                        ![k].last_read_at = now]
                ELSE conversation_members
          /\ task' = [task EXCEPT ![t] =
                IF hit
                THEN WithCalls([r EXCEPT !.RowsAffected = 1],
                        << Call(r.user, Frame("unread_count_update", r.conv, Nil, 0, "")) >>,
                        AfterMarkAsRead)
                ELSE [r EXCEPT !.RowsAffected = 0, !.pc = AfterMarkAsRead]]
    /\ UNCHANGED <<conversations, messages, user_relationships, now, redisVars,
                   settingsVars, hubVars>>

\* handleMarkAsRead with enable_read_receipt on: GetConversationMembers
ReadReceiptMembers(t) ==
    /\ task[t].pc = "readMembers"
    /\ Alive(t)
    /\ LET r == task[t]
           ms == ActiveMembers(r.conv) \ {r.user}
       IN task' = [task EXCEPT ![t] =
            [r EXCEPT !.todo = ms, !.pc = IF ms = {} THEN "done" ELSE "readPush"]]
    /\ UNCHANGED <<dbVars, redisVars, settingsVars, hubVars>>

\* one iteration of its loop: the read frame for one other member
ReadReceiptPush(t) ==
    /\ task[t].pc = "readPush"
    /\ Alive(t)
    /\ \E u \in task[t].todo :
        LET r == task[t]
            rest == r.todo \ {u}
        IN task' = [task EXCEPT ![t] =
                WithCalls([r EXCEPT !.todo = rest],
                    << Call(u, Frame("read", r.conv, r.msg, r.user, "")) >>,
                    IF rest = {} THEN "done" ELSE "readPush")]
    /\ UNCHANGED <<dbVars, redisVars, settingsVars, hubVars>>

\* Users 1 and 2 have a private conversation in which user 1 has sent
\* messages 1 and 2, a second apart; user 2 has read neither.  User 2 is
\* connected on both replicas, user 1 on replica 1.
ReadStore ==
    /\ conversations = [c \in ConvIds |->
            IF c = 1 THEN [conversation_type |-> "private", last_message_id |-> 2]
            ELSE NoConversation]
    /\ conversation_members = [k \in ConvIds \X Users |->
            IF k[1] = 1 /\ k[2] = 1 THEN NewMember("member")
            ELSE IF k[1] = 1 /\ k[2] = 2
                 THEN [NewMember("member") EXCEPT !.unread_count = 2]
            ELSE NoMember]
    /\ now = RecallWindowSeconds + 1
    /\ messages = << [conversation_id |-> 1, sender_id |-> 1, created_at |-> now - 2,
                      is_recalled |-> FALSE, recalled_at |-> Nil],
                     [conversation_id |-> 1, sender_id |-> 1, created_at |-> now - 1,
                      is_recalled |-> FALSE, recalled_at |-> Nil] >>
    /\ user_relationships = {}
    /\ locks = {}
    /\ offline_msg = [u \in Users |-> <<>>]
    /\ online = {}

InitRead ==
    /\ ReadStore
    /\ settingsCache \in [{"enable_read_receipt"} -> BOOLEAN]
    /\ convSettingsCache = settingsCache
    /\ system_settings = settingsCache
    /\ HubWith(1 :> Device(2, 1) @@ 2 :> Device(2, 2) @@ 3 :> Device(1, 1), SendChanCap)
    /\ task = [t \in TaskIds |-> IdleTask]

NextRead ==
    \/ \E t \in TaskIds, c \in ClientIds, m \in 1..3 : handleMarkAsRead(t, c, 1, m)
    \/ \E t \in TaskIds : MarkAsRead(t)
    \/ \E t \in TaskIds : ReadReceiptMembers(t)
    \/ \E t \in TaskIds : ReadReceiptPush(t)
    \/ \E t \in TaskIds : SendToUserCopy(t)
    \/ \E t \in TaskIds : SendToUserEnqueue(t)
    \/ Tick

SpecRead == InitRead /\ [][NextRead]_vars

\* ------------------------------------------- offline replay (SpecReplay)
\* Users 1 and 2 have a private conversation; user 1 has sent message 1
\* while user 2 was offline, so that it waits in offline_msg:2.  User 1 is
\* connected on replica 1 and goes on sending; user 2 connects there once
\* and may go away again.  The first-message flag is off.
ReplayStore ==
    /\ conversations = [c \in ConvIds |->
            IF c = 1 THEN [conversation_type |-> "private", last_message_id |-> 1]
            ELSE NoConversation]
    /\ conversation_members = [k \in ConvIds \X Users |->
            IF k[1] = 1 /\ k[2] = 1 THEN NewMember("member")
            ELSE IF k[1] = 1 /\ k[2] = 2
                 THEN [NewMember("member") EXCEPT !.unread_count = 1]
            ELSE NoMember]
    /\ messages = << [conversation_id |-> 1, sender_id |-> 1, created_at |-> 0,
                      is_recalled |-> FALSE, recalled_at |-> Nil] >>
    /\ user_relationships = {}
    /\ now = 0
    /\ locks = {}
    /\ offline_msg = [u \in Users |-> IF u = 2 THEN <<1>> ELSE <<>>]
    /\ online = {}

InitReplay ==
    /\ ReplayStore
    /\ settingsCache = [k \in {"enable_first_message_limit"} |-> FALSE]
    /\ convSettingsCache = settingsCache
    /\ system_settings = settingsCache
    /\ HubWith(1 :> Device(1, 1), SendChanCap)
    /\ task = [t \in TaskIds |-> IdleTask]

NextReplay ==
    \/ \E t \in TaskIds : StartSend(t, 1, 1, Nil)
    \/ \E t \in TaskIds : OrderSteps(t)
    \/ HandleWebSocket(2, 2, 1)
    \/ \E c \in ClientIds : sendOfflineMessagesRange(c)
    \/ \E c \in ClientIds : sendOfflineMessagesSend(c)
    \/ \E c \in ClientIds : sendOfflineMessagesDel(c)
    \/ ReaderExit(2)
    \/ \E c \in ClientIds : ReaderClose(c)

SpecReplay == InitReplay /\ [][NextReplay]_vars

\* ------------------------------------------------- presence (SpecPresence)
\* readPump of client c reads a "heartbeat" frame: SET online:{user} with a
\* TTL of 30 s if the feature is on
heartbeat(c) ==
    /\ conn[c].phase = "open"
    /\ ~Busy(c)
    /\ ~panicked[conn[c].pod]
    /\ IsFeatureEnabled("enable_online_status")
    /\ conn[c].UserID \notin online
    /\ online' = online \cup {conn[c].UserID}
    /\ UNCHANGED <<dbVars, locks, offline_msg, settingsVars, hubVars, task>>

\* The store of HubStore, nobody connected, enable_online_status on.  User 1
\* connects with up to NumClients devices on any replica, sends heartbeats,
\* disconnects and is logged out.
InitPresence ==
    /\ HubStore
    /\ settingsCache = [k \in {"enable_online_status"} |-> TRUE]
    /\ convSettingsCache = settingsCache
    /\ system_settings = settingsCache
    /\ HubWith(<<>>, SendChanCap)
    /\ task = [t \in TaskIds |-> IdleTask]

NextPresence ==
    \/ \E c \in ClientIds, u \in HubUsers, p \in Pods : HandleWebSocket(c, u, p)
    \/ \E c \in ClientIds : heartbeat(c)
    \/ \E c \in ClientIds : ReaderExit(c)
    \/ \E c \in ClientIds : ReaderClose(c)
    \/ \E t \in 1..NumLogouts, p \in Pods, u \in HubUsers :
            \E header \in {u, Nil} : Logout(t, p, u, header)
    \/ \E t \in TaskIds : ForceOfflineRemove(t)
    \/ \E t \in TaskIds : ForceOfflineClose(t)

SpecPresence == InitPresence /\ [][NextPresence]_vars

\* --------------------------------------------- unread counters (SpecUnread)
\* messages the conversations of the unread specification hold at most
MaxMessages == 2
\* mark-reads that update a row, at most
MaxReads == 2

\* handleSendMessage / handleMarkAsRead / handleRecallMessage has returned:
\* readPump goes on to the next frame
HandlerReturn(t) ==
    /\ task[t].pc = "done"
    /\ task' = [task EXCEPT ![t] = IdleTask]
    /\ UNCHANGED <<dbVars, redisVars, settingsVars, hubVars>>

SendsInProgress == {t \in TaskIds : task[t].op = "send" /\ task[t].pc \notin {"idle", "done"}}

\* Users 1 and 2 have a private conversation, users 2 and 3 another; neither
\* holds a message.  Users 1 and 3 are connected on replica 1, user 2 on
\* replica 2.  Both flags are off.
UnreadStore ==
    /\ conversations = [c \in ConvIds |->
            IF c \in {1, 2} THEN [conversation_type |-> "private", last_message_id |-> Nil]
            ELSE NoConversation]
    /\ conversation_members = [k \in ConvIds \X Users |->
            IF (k[1] = 1 /\ k[2] \in {1, 2}) \/ (k[1] = 2 /\ k[2] \in {2, 3})
            THEN NewMember("member")
            ELSE NoMember]
    /\ messages = <<>>
    /\ user_relationships = {}
    /\ now = RecallWindowSeconds + 1
    /\ locks = {}
    /\ offline_msg = [u \in Users |-> <<>>]
    /\ online = {}

InitUnread ==
    /\ UnreadStore
    /\ settingsCache = [k \in {"enable_first_message_limit", "enable_read_receipt"} |-> FALSE]
    /\ convSettingsCache = settingsCache
    /\ system_settings = settingsCache
    /\ HubWith(1 :> Device(1, 1) @@ 2 :> Device(2, 2) @@ 3 :> Device(3, 1), SendChanCap)
    /\ task = [t \in TaskIds |-> IdleTask]

\* how many mark-reads of the user of client c have updated a row: each has
\* pushed unread_count_update with count 0
ReadsDone(c) ==
    Cardinality({i \in 1..Len(Send[c]) :
                    Send[c][i].type = "unread_count_update" /\ Send[c][i].n = 0})

UnreadSteps(t) ==
    \/ CheckMember(t)
    \/ CanSendNoLock(t)
    \/ LoadMembers(t)
    \/ SnapshotViewing(t)
    \/ TransactionCreate(t)
    \/ Transaction(t)
    \/ FanOut(t)
    \/ HandlerMembers(t)
    \/ HandlerPush(t)
    \/ SendToUserCopy(t)
    \/ SendToUserEnqueue(t)
    \/ MarkAsRead(t)
    \/ HandlerReturn(t)

\* user 1 sends to conversation 1, user 3 to conversation 2; user 2 sends
\* read frames naming either conversation and any message
NextUnread ==
    \/ \E t \in TaskIds, c \in {1, 3} :
            /\ Len(messages) + Cardinality(SendsInProgress) < MaxMessages
            /\ StartSend(t, c, IF c = 1 THEN 1 ELSE 2, Nil)
    \/ \E t \in TaskIds, cv \in {1, 2}, m \in 1..MaxMessages :
            /\ ReadsDone(2) < MaxReads
            /\ handleMarkAsRead(t, 2, cv, m)
    \/ \E t \in TaskIds : UnreadSteps(t)
    \/ Tick

SpecUnread == InitUnread /\ [][NextUnread]_vars

\* ------------------------------------------ group membership (SpecMembers)
\* ids a request body lists at most
MaxMemberIds == 2

MemberIdLists == UNION {[1..n -> Users] : n \in 0..MaxMemberIds}

Range(f) == {f[i] : i \in DOMAIN f}

\* the handler answers the request with the error
HttpFail(r, e) == [r EXCEPT !.err = e, !.pc = "done"]

IsGroup(cv) == cv \in ConvIds /\ conversations[cv].conversation_type = "group"

\* WHERE conversation_id = ? AND user_id = ? AND left_at IS NULL
ActiveRole(cv, u) == IF IsActive(cv, u) THEN conversation_members[<<cv, u>>].role ELSE "none"

\* POST /conversations/group: CreateGroupConversation inserts the
\* conversation, the creator as owner and one row per id that is not the
\* creator's, in one transaction.  A second INSERT for a user violates
\* UNIQUE(conversation_id, user_id): the transaction is rolled back and the
\* handler answers 500
CreateGroupConversation(t, p, u, memberIDs) ==
    /\ task[t].pc = "idle"
    /\ \A s \in 1..(t - 1) : task[s].pc # "idle"
    /\ ~panicked[p]
    /\ FreeConvIds # {}
    /\ LET r == [IdleTask EXCEPT !.op = "createGroup", !.pod = p, !.user = u,
                                 !.ids = memberIDs]
           cv == CHOOSE c \in FreeConvIds : \A d \in FreeConvIds : c <= d
           others == SelectSeq(memberIDs, LAMBDA m : m # u)
           unique == \A i, j \in 1..Len(others) : others[i] = others[j] => i = j
       IN IF unique
          THEN /\ conversations' = [conversations EXCEPT ![cv] =
                        [conversation_type |-> "group", last_message_id |-> Nil]]
               /\ conversation_members' = [k \in DOMAIN conversation_members |->
                        IF k[1] # cv THEN conversation_members[k]
                        ELSE IF k[2] = u THEN NewMember("owner")
                        ELSE IF k[2] \in Range(others) THEN NewMember("member")
                        ELSE conversation_members[k]]
               /\ task' = [task EXCEPT ![t] = [r EXCEPT !.conv = cv, !.pc = "done"]]
          ELSE /\ UNCHANGED <<conversations, conversation_members>>
               /\ task' = [task EXCEPT ![t] =
                        HttpFail(r, "duplicate key value violates unique constraint")]
    /\ UNCHANGED <<messages, user_relationships, now, redisVars, settingsVars, hubVars>>

\* POST /conversations/:id/members: AddMembersToGroup reads the conversation
AddMembersToGroup(t, p, u, cv, memberIDs) ==
    /\ task[t].pc = "idle"
    /\ \A s \in 1..(t - 1) : task[s].pc # "idle"
    /\ ~panicked[p]
    /\ LET r == [IdleTask EXCEPT !.op = "add", !.pod = p, !.user = u, !.conv = cv,
                                 !.req_conv = cv, !.ids = memberIDs]
       IN task' = [task EXCEPT ![t] =
            IF conversations[cv].conversation_type = "none"
            THEN HttpFail(r, "conversation not found")
            ELSE IF ~IsGroup(cv)
            THEN HttpFail(r, "can only add members to group conversations")
            ELSE [r EXCEPT !.pc = "addOperator"]]
    /\ UNCHANGED <<dbVars, redisVars, settingsVars, hubVars>>

\* the pc of AddMembersToGroup with the ids `rest` left
AddNext(r, rest) == [r EXCEPT !.ids = rest, !.pc = IF rest = <<>> THEN "done" ELSE "addCount"]

\* AddMembersToGroup: the operator's active row is read and its role checked
AddOperator(t) ==
    /\ task[t].pc = "addOperator"
    /\ Alive(t)
    /\ LET r == task[t]
           role == ActiveRole(r.conv, r.user)
       IN task' = [task EXCEPT ![t] =
            IF role = "none" THEN HttpFail(r, "you are not a member of this conversation")
            ELSE IF role \notin {"owner", "admin"}
            THEN HttpFail(r, "only owner or admin can add members")
            ELSE AddNext(r, r.ids)]
    /\ UNCHANGED <<dbVars, redisVars, settingsVars, hubVars>>

\* AddMembersToGroup, the loop: the COUNT of active rows of the next id
AddCount(t) ==
    /\ task[t].pc = "addCount"
    /\ Alive(t)
    /\ LET r == task[t]
       IN task' = [task EXCEPT ![t] =
            IF IsActive(r.conv, Head(r.ids)) THEN AddNext(r, Tail(r.ids))
            ELSE [r EXCEPT !.pc = "addCreate"]]
    /\ UNCHANGED <<dbVars, redisVars, settingsVars, hubVars>>

\* AddMembersToGroup, the loop: the INSERT, which UNIQUE(conversation_id,
\* user_id) refuses when the user has a row, left or not
AddCreate(t) ==
    /\ task[t].pc = "addCreate"
    /\ Alive(t)
    /\ LET r == task[t]
           k == <<r.conv, Head(r.ids)>>
       IN IF HasRow(k[1], k[2])
          THEN /\ UNCHANGED conversation_members
               /\ task' = [task EXCEPT ![t] = HttpFail(r, "failed to add member")]
          ELSE /\ conversation_members' = [conversation_members EXCEPT
                        ![k] = NewMember("member")]
               /\ task' = [task EXCEPT ![t] = AddNext(r, Tail(r.ids))]
    /\ UNCHANGED <<conversations, messages, user_relationships, now, redisVars,
                   settingsVars, hubVars>>

\* POST /conversations/:id/members/remove: RemoveMemberFromGroup reads the
\* conversation
RemoveMemberFromGroup(t, p, u, cv, targetUserID) ==
    /\ task[t].pc = "idle"
    /\ \A s \in 1..(t - 1) : task[s].pc # "idle"
    /\ ~panicked[p]
    /\ LET r == [IdleTask EXCEPT !.op = "remove", !.pod = p, !.user = u, !.conv = cv,
                                 !.req_conv = cv, !.target = targetUserID]
       IN task' = [task EXCEPT ![t] =
            IF conversations[cv].conversation_type = "none"
            THEN HttpFail(r, "conversation not found")
            ELSE IF ~IsGroup(cv)
            THEN HttpFail(r, "can only remove members from group conversations")
            ELSE [r EXCEPT !.pc = "removeOperator"]]
    /\ UNCHANGED <<dbVars, redisVars, settingsVars, hubVars>>

\* RemoveMemberFromGroup: the operator's active row is read, its role checked
RemoveOperator(t) ==
    /\ task[t].pc = "removeOperator"
    /\ Alive(t)
    /\ LET r == task[t]
           role == ActiveRole(r.conv, r.user)
       IN task' = [task EXCEPT ![t] =
            IF role = "none" THEN HttpFail(r, "you are not a member of this conversation")
            ELSE IF role \notin {"owner", "admin"}
            THEN HttpFail(r, "only owner or admin can remove members")
            ELSE [r EXCEPT !.pc = "removeTarget"]]
    /\ UNCHANGED <<dbVars, redisVars, settingsVars, hubVars>>

\* RemoveMemberFromGroup: the target's active row is read, its role checked
RemoveTarget(t) ==
    /\ task[t].pc = "removeTarget"
    /\ Alive(t)
    /\ LET r == task[t]
           role == ActiveRole(r.conv, r.target)
       IN task' = [task EXCEPT ![t] =
            IF role = "none" THEN HttpFail(r, "target user is not a member")
            ELSE IF role = "owner" THEN HttpFail(r, "cannot remove owner")
            ELSE [r EXCEPT !.pc = "removeUpdate"]]
    /\ UNCHANGED <<dbVars, redisVars, settingsVars, hubVars>>

\* RemoveMemberFromGroup: UPDATE conversation_members SET left_at = now
\* WHERE id = the id of the row read
RemoveUpdate(t) ==
    /\ task[t].pc = "removeUpdate"
    /\ Alive(t)
    /\ conversation_members' = [conversation_members EXCEPT
            ![<<task[t].conv, task[t].target>>].state = "left"]
    /\ task' = [task EXCEPT ![t].pc = "done"]
    /\ UNCHANGED <<conversations, messages, user_relationships, now, redisVars,
                   settingsVars, hubVars>>

\* POST /conversations/:id/members/:user_id/role: UpdateMemberRole
UpdateMemberRole(t, p, u, cv, targetUserID, newRole) ==
    /\ task[t].pc = "idle"
    /\ \A s \in 1..(t - 1) : task[s].pc # "idle"
    /\ ~panicked[p]
    /\ LET r == [IdleTask EXCEPT !.op = "role", !.pod = p, !.user = u, !.conv = cv,
                                 !.req_conv = cv, !.target = targetUserID,
                                 !.newRole = newRole]
       IN task' = [task EXCEPT ![t] =
            IF newRole \notin {"owner", "admin", "member"} THEN HttpFail(r, "invalid role")
            ELSE [r EXCEPT !.pc = "roleOperator"]]
    /\ UNCHANGED <<dbVars, redisVars, settingsVars, hubVars>>

\* UpdateMemberRole: the operator must be the owner
RoleOperator(t) ==
    /\ task[t].pc = "roleOperator"
    /\ Alive(t)
    /\ LET r == task[t]
           role == ActiveRole(r.conv, r.user)
       IN task' = [task EXCEPT ![t] =
            IF role = "none" THEN HttpFail(r, "you are not a member of this conversation")
            ELSE IF role # "owner" THEN HttpFail(r, "only owner can change roles")
            ELSE [r EXCEPT !.pc = "roleUpdate"]]
    /\ UNCHANGED <<dbVars, redisVars, settingsVars, hubVars>>

\* UpdateMemberRole: UPDATE ... SET role WHERE the target's row is active
RoleUpdate(t) ==
    /\ task[t].pc = "roleUpdate"
    /\ Alive(t)
    /\ LET r == task[t]
           k == <<r.conv, r.target>>
       IN IF IsActive(k[1], k[2])
          THEN /\ conversation_members' = [conversation_members EXCEPT ![k].role = r.newRole]
               /\ task' = [task EXCEPT ![t] = [r EXCEPT !.RowsAffected = 1, !.pc = "done"]]
          ELSE /\ UNCHANGED conversation_members
               /\ task' = [task EXCEPT ![t] = HttpFail(r, "member not found")]
    /\ UNCHANGED <<conversations, messages, user_relationships, now, redisVars,
                   settingsVars, hubVars>>

\* Conversation 1 is a group owned by user 1; user 2 is an admin or a plain
\* member of it, user 3 is a member, has left it or never was in it.
MembersStore(role2, state3) ==
    /\ conversations = [c \in ConvIds |->
            IF c = 1 THEN [conversation_type |-> "group", last_message_id |-> Nil]
            ELSE NoConversation]
    /\ conversation_members = [k \in ConvIds \X Users |->
            IF k[1] # 1 THEN NoMember
            ELSE IF k[2] = 1 THEN NewMember("owner")
            ELSE IF k[2] = 2 THEN NewMember(role2)
            ELSE IF state3 = "none" THEN NoMember
            ELSE [NewMember("member") EXCEPT !.state = state3]]
    /\ messages = <<>>
    /\ user_relationships = {}
    /\ now = 0
    /\ locks = {}
    /\ offline_msg = [u \in Users |-> <<>>]
    /\ online = {}

InitMembers ==
    /\ \E role2 \in {"admin", "member"}, state3 \in {"none", "active", "left"} :
            MembersStore(role2, state3)
    /\ settingsCache = [k \in {"enable_first_message_limit"} |-> TRUE]
    /\ convSettingsCache = settingsCache
    /\ system_settings = settingsCache
    /\ HubWith(<<>>, SendChanCap)
    /\ task = [t \in TaskIds |-> IdleTask]

MembersSteps(t) ==
    \/ AddOperator(t)
    \/ AddCount(t)
    \/ AddCreate(t)
    \/ RemoveOperator(t)
    \/ RemoveTarget(t)
    \/ RemoveUpdate(t)
    \/ RoleOperator(t)
    \/ RoleUpdate(t)

NextMembers ==
    \/ \E t \in TaskIds, u \in Users, ids \in MemberIdLists :
            CreateGroupConversation(t, 1, u, ids)
    \/ \E t \in TaskIds, u \in Users, ids \in MemberIdLists :
            AddMembersToGroup(t, 1, u, 1, ids)
    \/ \E t \in TaskIds, u \in Users, cv \in ConvIds, target \in Users :
            RemoveMemberFromGroup(t, 1, u, cv, target)
    \/ \E t \in TaskIds, u \in Users, target \in Users,
          newRole \in {"owner", "member", "moderator"} :
            UpdateMemberRole(t, 1, u, 1, target, newRole)
    \/ \E u \in Users : LeaveGroup(u, 1)
    \/ \E t \in TaskIds : MembersSteps(t)

SpecMembers == InitMembers /\ [][NextMembers]_vars

\* ------------------------------------------------------- system settings
\* The feature flags of one process.  main builds one SystemSettingsService
\* and hands it to the hub, to both MessageServices and to the settings
\* handler; NewConversationServiceWithRedis builds a second one for the
\* conversation service.  Each loads the table into its own cache when built.
FlagKeys == {"enable_first_message_limit", "enable_online_status"}
SettingKeys == FlagKeys \cup {"no_such_setting"}

\* the flag reads of the source: who reads which key
FlagReads ==
    {<<"hub", "enable_online_status">>, <<"msgSvc", "enable_first_message_limit">>,
     <<"convSvc", "enable_first_message_limit">>, <<"convSvc", "enable_online_status">>}
Components == {fr[1] : fr \in FlagReads}

\* the cache behind the sysSvc field of the component
CacheOf(component) == IF component = "convSvc" THEN convSettingsCache ELSE settingsCache

\* GetBoolSetting(key, false) on that cache
GetBoolSetting(cache, key) == key \in DOMAIN cache /\ cache[key]

\* PUT /admin/settings/:key: UpdateSetting runs the UPDATE; no row with that
\* key, RowsAffected = 0, is an error and the cache is left alone
UpdateSetting(t, p, key, value) ==
    /\ task[t].pc = "idle"
    /\ \A s \in 1..(t - 1) : task[s].pc # "idle"
    /\ ~panicked[p]
    /\ LET r == [IdleTask EXCEPT !.op = "updateSetting", !.pod = p, !.key = key,
                                 !.value = value]
       IN IF key \in DOMAIN system_settings
          THEN /\ system_settings' = [system_settings EXCEPT ![key] = value]
               /\ task' = [task EXCEPT ![t] = [r EXCEPT !.RowsAffected = 1,
                                                        !.pc = "updateCache"]]
          ELSE /\ UNCHANGED system_settings
               /\ task' = [task EXCEPT ![t] = HttpFail(r, "setting key not found")]
    /\ UNCHANGED <<dbVars, redisVars, settingsCache, convSettingsCache, hubVars>>

\* UpdateSetting: s.settingsCache[key] = value under the mutex, return nil.
\* s is the SystemSettingsService the settings handler was built with.
UpdateCache(t) ==
    /\ task[t].pc = "updateCache"
    /\ Alive(t)
    /\ settingsCache' = (task[t].key :> task[t].value) @@ settingsCache
    /\ task' = [task EXCEPT ![t].pc = "done"]
    /\ UNCHANGED <<dbVars, redisVars, convSettingsCache, system_settings, hubVars>>

\* POST /admin/settings/reload: LoadSettings reads every row
LoadSettings(t, p) ==
    /\ task[t].pc = "idle"
    /\ \A s \in 1..(t - 1) : task[s].pc # "idle"
    /\ ~panicked[p]
    /\ task' = [task EXCEPT ![t] = [IdleTask EXCEPT !.op = "loadSettings", !.pod = p,
                                                    !.settings = system_settings,
                                                    !.pc = "loadCache"]]
    /\ UNCHANGED <<dbVars, redisVars, settingsVars, hubVars>>

\* LoadSettings: the rows read are stored in the cache under the mutex
LoadCache(t) ==
    /\ task[t].pc = "loadCache"
    /\ Alive(t)
    /\ settingsCache' = task[t].settings @@ settingsCache
    /\ task' = [task EXCEPT ![t].pc = "done"]
    /\ UNCHANGED <<dbVars, redisVars, convSettingsCache, system_settings, hubVars>>

\* a component asks its sysSvc whether the feature is on
ReadFlag(t, p, component, key) ==
    /\ task[t].pc = "idle"
    /\ \A s \in 1..(t - 1) : task[s].pc # "idle"
    /\ ~panicked[p]
    /\ <<component, key>> \in FlagReads
    /\ task' = [task EXCEPT ![t] =
            [IdleTask EXCEPT !.op = "isFeatureEnabled", !.pod = p, !.key = key,
                             !.component = component,
                             !.value = GetBoolSetting(CacheOf(component), key),
                             !.pc = "done"]]
    /\ UNCHANGED <<dbVars, redisVars, settingsVars, hubVars>>

InitSettings ==
    /\ MembersStore("member", "none")
    /\ system_settings \in [FlagKeys -> BOOLEAN]
    /\ settingsCache = system_settings
    /\ convSettingsCache = system_settings
    /\ HubWith(<<>>, SendChanCap)
    /\ task = [t \in TaskIds |-> IdleTask]

NextSettings ==
    \/ \E t \in TaskIds, key \in SettingKeys, value \in BOOLEAN : UpdateSetting(t, 1, key, value)
    \/ \E t \in TaskIds : UpdateCache(t)
    \/ \E t \in TaskIds : LoadSettings(t, 1)
    \/ \E t \in TaskIds : LoadCache(t)
    \/ \E t \in TaskIds, fr \in FlagReads : ReadFlag(t, 1, fr[1], fr[2])
    \/ \E t \in TaskIds : HandlerReturn(t)

SpecSettings == InitSettings /\ [][NextSettings]_vars

\* ------------------------------------------------------ logout (SpecLogout)
\* User 1 is connected with two devices, both on replica 1 or one on each
\* replica, and has its presence key if the feature is on.  Nobody connects
\* any more; user 1 logs out, with or without the X-User-ID header, while
\* its devices send heartbeats or go away.
\* the store of HubStore; online:{1} is set if the feature is on
LogoutStore ==
    /\ conversations = [c \in ConvIds |->
            IF c = 1 THEN [conversation_type |-> "group", last_message_id |-> 1]
            ELSE NoConversation]
    /\ conversation_members = [k \in ConvIds \X Users |->
            IF k[1] # 1 THEN NoMember
            ELSE IF k[2] = 2 THEN NewMember("member")
            ELSE [NewMember(IF k[2] = 1 THEN "owner" ELSE "member") EXCEPT !.unread_count = 1]]
    /\ messages = << [conversation_id |-> 1, sender_id |-> 2, created_at |-> 0,
                      is_recalled |-> FALSE, recalled_at |-> Nil] >>
    /\ user_relationships = {}
    /\ now = 0
    /\ locks = {}
    /\ offline_msg = [u \in Users |-> <<>>]
    /\ online = IF IsFeatureEnabled("enable_online_status") THEN {1} ELSE {}

InitLogout ==
    /\ settingsCache \in [{"enable_online_status"} -> BOOLEAN]
    /\ convSettingsCache = settingsCache
    /\ system_settings = settingsCache
    /\ LogoutStore
    /\ \E p2 \in Pods : HubWith(1 :> Device(1, 1) @@ 2 :> Device(1, p2), SendChanCap)
    /\ task = [t \in TaskIds |-> IdleTask]

NextLogout ==
    \/ \E t \in TaskIds, p \in Pods, u \in HubUsers :
            \E header \in {u, Nil} : Logout(t, p, u, header)
    \/ \E t \in TaskIds : ForceOfflineRemove(t)
    \/ \E t \in TaskIds : ForceOfflineClose(t)
    \/ \E c \in ClientIds : heartbeat(c)
    \/ \E c \in ClientIds : ReaderExit(c)
    \/ \E c \in ClientIds : ReaderClose(c)

SpecLogout == InitLogout /\ [][NextLogout]_vars

\* ------------------------------------------- registry lock (SpecRegistry)
\* Register and Unregister with the critical sections of h.mu as the source
\* has them.  A client in phase "unregisterLocked" is inside Unregister, has
\* been deleted from the map as its user's last device and still holds h.mu.
HoldsHubLock(c) == conn[c].phase = "unregisterLocked"

HubLocked(p) == \E c \in ClientIds : conn[c].pod = p /\ HoldsHubLock(c)

\* HandleWebSocket calls Register: under h.mu the count is compared with the
\* maximum and the client inserted, then h.mu is unlocked
RegisterInsert(c, u, p) ==
    /\ conn[c].phase = "none"
    /\ \A d \in 1..(c - 1) : conn[d].phase # "none"
    /\ \A q \in 1..(p - 1) : \E d \in ClientIds : conn[d].pod = q
    /\ ~panicked[p]
    /\ ~HubLocked(p)
    /\ LET reject == Cardinality(ClientsOfUser(p, u)) >= MaxConnectionsPerUser
       IN /\ Clients' = IF reject THEN Clients ELSE [Clients EXCEPT ![p] = @ \cup {c}]
          /\ conn' = [conn EXCEPT ![c] =
                [phase |-> IF reject THEN "rejecting" ELSE "registered", UserID |-> u,
                 pod |-> p, replay |-> "done", list |-> <<>>]]
    /\ UNCHANGED <<dbVars, redisVars, settingsVars, Send, chanCap, closed,
                   CurrentConversationID, written, unregistering, dropped, panicked, task>>

\* Register after the unlock: SET online:{user} if the feature is on
RegisterPresence(c) ==
    /\ conn[c].phase = "registered"
    /\ ~panicked[conn[c].pod]
    /\ online' = IF IsFeatureEnabled("enable_online_status")
                 THEN online \cup {conn[c].UserID} ELSE online
    /\ conn' = [conn EXCEPT ![c].phase = "open"]
    /\ UNCHANGED <<dbVars, locks, offline_msg, settingsVars, Clients, Send, chanCap, closed,
                   CurrentConversationID, written, unregistering, dropped, panicked, task>>

\* Register after the unlock, client over the maximum: the error frame and
\* the close frame are written to the socket
RegisterReject(c) ==
    /\ conn[c].phase = "rejecting"
    /\ ~panicked[conn[c].pod]
    /\ written' = [written EXCEPT ![c] = <<TooManyDevices, CloseFrame>>]
    /\ conn' = [conn EXCEPT ![c].phase = "rejected"]
    /\ UNCHANGED <<dbVars, redisVars, settingsVars, Clients, Send, chanCap, closed,
                   CurrentConversationID, unregistering, dropped, panicked, task>>

\* readPump ends and the deferred Unregister takes h.mu and deletes the
\* client from the map.  If the user has devices left, or the client was not
\* in the map, h.mu is unlocked; otherwise the presence branch follows with
\* h.mu held
UnregisterLock(c) ==
    /\ conn[c].phase \in {"open", "rejected"}
    /\ ~Busy(c)
    /\ ~panicked[conn[c].pod]
    /\ ~HubLocked(conn[c].pod)
    /\ Clients' = UnregisterRemove(c)
    /\ conn' = [conn EXCEPT ![c].phase =
            IF Registered(c) /\ ClientsOfUser(conn[c].pod, conn[c].UserID) = {c}
            THEN "unregisterLocked" ELSE "closing"]
    /\ UNCHANGED <<dbVars, redisVars, settingsVars, Send, chanCap, closed,
                   CurrentConversationID, written, unregistering, dropped, panicked, task>>

\* Unregister, the user's last device, h.mu still held: DEL online:{user} if
\* the feature is on, then h.mu.Unlock()
UnregisterDel(c) ==
    /\ HoldsHubLock(c)
    /\ ~panicked[conn[c].pod]
    /\ online' = IF IsFeatureEnabled("enable_online_status")
                 THEN online \ {conn[c].UserID} ELSE online
    /\ conn' = [conn EXCEPT ![c].phase = "closing"]
    /\ UNCHANGED <<dbVars, locks, offline_msg, settingsVars, Clients, Send, chanCap, closed,
                   CurrentConversationID, written, unregistering, dropped, panicked, task>>

\* nobody is connected; the feature is on or off
InitRegistry ==
    /\ HubStore
    /\ settingsCache \in [{"enable_online_status"} -> BOOLEAN]
    /\ convSettingsCache = settingsCache
    /\ system_settings = settingsCache
    /\ HubWith(<<>>, SendChanCap)
    /\ task = [t \in TaskIds |-> IdleTask]

NextRegistry ==
    \/ \E c \in ClientIds, u \in HubUsers, p \in Pods : RegisterInsert(c, u, p)
    \/ \E c \in ClientIds : RegisterPresence(c)
    \/ \E c \in ClientIds : RegisterReject(c)
    \/ \E c \in ClientIds : UnregisterLock(c)
    \/ \E c \in ClientIds : UnregisterDel(c)
    \/ \E c \in ClientIds : ReaderClose(c)
    \/ \E t \in 1..NumLogouts, p \in Pods, u \in HubUsers : StartBroadcast(t, p, u)
    \/ \E t \in TaskIds : SendToUserCopy(t)
    \/ \E t \in TaskIds : SendToUserEnqueue(t)

SpecRegistry == InitRegistry /\ [][NextRegistry]_vars

\* ------------------------------------------- typing and read (SpecTyping)
\* readPump of client c reads a "typing" frame: handleTyping returns at once
\* if enable_typing_indicator is off; otherwise it reads the active members
\* of the conversation named in the frame
handleTyping(t, c, cv) ==
    /\ task[t].pc = "idle"
    /\ \A s \in 1..(t - 1) : task[s].pc # "idle"
    /\ conn[c].phase = "open"
    /\ ~Busy(c)
    /\ ~panicked[conn[c].pod]
    /\ LET r == [IdleTask EXCEPT !.op = "typing", !.pod = conn[c].pod, !.client = c,
                                 !.user = conn[c].UserID, !.req_conv = cv, !.conv = cv]
           ms == ActiveMembers(cv) \ {r.user}
       IN task' = [task EXCEPT ![t] =
            IF ~IsFeatureEnabled("enable_typing_indicator") \/ ms = {}
            THEN [r EXCEPT !.pc = "done"]
            ELSE [r EXCEPT !.todo = ms, !.pc = "typingPush"]]
    /\ UNCHANGED <<dbVars, redisVars, settingsVars, hubVars>>

\* one iteration of its loop: the typing frame for one other member
TypingPush(t) ==
    /\ task[t].pc = "typingPush"
    /\ Alive(t)
    /\ \E u \in task[t].todo :
        LET r == task[t]
            rest == r.todo \ {u}
        IN task' = [task EXCEPT ![t] =
                WithCalls([r EXCEPT !.todo = rest],
                    << Call(u, Frame("typing", r.conv, Nil, r.user, "")) >>,
                    IF rest = {} THEN "done" ELSE "typingPush")]
    /\ UNCHANGED <<dbVars, redisVars, settingsVars, hubVars>>

\* The store of ReadStore: users 1 and 2 share private conversation 1, user
\* 3 is in no conversation.  All three are connected on replica 1.
InitTyping ==
    /\ ReadStore
    /\ settingsCache \in [{"enable_typing_indicator", "enable_read_receipt"} -> BOOLEAN]
    /\ convSettingsCache = settingsCache
    /\ system_settings = settingsCache
    /\ HubWith(1 :> Device(1, 1) @@ 2 :> Device(2, 1) @@ 3 :> Device(3, 1), SendChanCap)
    /\ task = [t \in TaskIds |-> IdleTask]

NextTyping ==
    \/ \E t \in TaskIds, c \in ClientIds : handleTyping(t, c, 1)
    \/ \E t \in TaskIds : TypingPush(t)
    \/ \E t \in TaskIds, c \in ClientIds, m \in 1..3 : handleMarkAsRead(t, c, 1, m)
    \/ \E t \in TaskIds : MarkAsRead(t)
    \/ \E t \in TaskIds : ReadReceiptMembers(t)
    \/ \E t \in TaskIds : ReadReceiptPush(t)
    \/ \E t \in TaskIds : SendToUserCopy(t)
    \/ \E t \in TaskIds : SendToUserEnqueue(t)

SpecTyping == InitTyping /\ [][NextTyping]_vars

\* --------------------------------------------- cache errors (SpecCache)
\* the flag is on and every SetNX of the 3 tries returns an error (Redis is
\* not reachable): lockAcquired stays false, whether the key is set or not
SendLockError(t) ==
    /\ task[t].pc = "gate"
    /\ Alive(t)
    /\ IsFeatureEnabled("enable_first_message_limit")
    /\ task' = [task EXCEPT ![t] = Fail(@, "failed to acquire lock, please try again")]
    /\ UNCHANGED <<dbVars, redisVars, settingsVars, hubVars>>

\* getOrCreatePrivateConversation: every SetNX of the 30 tries returns an error
CreateLockError(t) ==
    /\ task[t].pc = "createLock"
    /\ Alive(t)
    /\ task' = [task EXCEPT ![t] =
            Fail(@, "failed to acquire lock for creating conversation")]
    /\ UNCHANGED <<dbVars, redisVars, settingsVars, hubVars>>

\* the first private sends of Spec, with Redis failing at any lock request
NextCache ==
    \/ Next
    \/ \E t \in TaskIds : SendLockError(t)
    \/ \E t \in TaskIds : CreateLockError(t)

SpecCache == Init /\ [][NextCache]_vars

\* ------------------------------------------- crashed lock holders (SpecLock)
\* request t is between its successful SetNX of key k and the deferred Del
HoldsLock(t, k) ==
    \/ /\ task[t].pc \in {"select2", "create", "createUnlock"}
       /\ k = CreateLockKey(task[t].user, task[t].req_recv)
    \/ /\ task[t].locked
       /\ k = SendLockKey(task[t].conv, task[t].user)

\* replica p stops (the process is killed) while one of its requests holds a
\* key: its goroutines take no further step, so the deferred rdb.Del never
\* runs
PodCrash(p) ==
    /\ ~panicked[p]
    /\ \E t \in TaskIds, k \in locks : task[t].pod = p /\ HoldsLock(t, k)
    /\ panicked' = [panicked EXCEPT ![p] = TRUE]
    /\ UNCHANGED <<dbVars, redisVars, settingsVars, Clients, conn, Send, chanCap,
                   closed, CurrentConversationID, written, dropped, unregistering,
                   task>>

\* the keys SetNX can be called with
LockKeys ==
    {CreateLockKey(u1, u2) : u1 \in Users, u2 \in Users}
        \cup {SendLockKey(c, u) : c \in ConvIds, u \in Users}

\* the first private sends of Spec, with replicas that may stop holding a key
NextLock ==
    \/ Next
    \/ \E p \in Pods : PodCrash(p)

SpecLock == Init /\ [][NextLock]_vars

\* Redis removes a key whose TTL has run out
SpecLockFair == SpecLock /\ \A k \in LockKeys : WF_vars(LockExpire(k))

\* ===================================================================== claims
Row(cv, u) == conversation_members[<<cv, u>>]

PrivateBetween(a, b) ==
    {c \in ConvIds : /\ conversations[c].conversation_type = "private"
                     /\ ActiveMembers(c) = {a, b}}

SentOk(t) == task[t].op = "send" /\ task[t].msg # Nil

\* C1: for every pair of distinct users there is never more than one private
\* conversation with exactly these two members, and there is exactly one as
\* soon as a first send between them has been persisted.
C1_OnePrivateConversationPerPair ==
    \A a \in Users, b \in Users :
        a < b =>
            /\ Cardinality(PrivateBetween(a, b)) <= 1
            /\ (\E t \in TaskIds : /\ SentOk(t)
                                   /\ {task[t].user, task[t].req_recv} = {a, b})
                    => Cardinality(PrivateBetween(a, b)) = 1

\* C2: with enable_first_message_limit on, a private conversation in which
\* the other party has sent nothing holds at most one message of a sender.
C2_AtMostOneUnansweredMessage ==
    IsFeatureEnabled("enable_first_message_limit") =>
        \A c \in ConvIds, u \in Users :
            (/\ conversations[c].conversation_type = "private"
             /\ {i \in MessagesOf(c) : messages[i].sender_id # u} = {})
                => Cardinality({i \in MessagesOf(c) : messages[i].sender_id = u}) <= 1

\* the step in which task t commits the transaction of its send
Commits(t) == task[t].pc = "commit" /\ task'[t].pc # "commit"

ViewingOnAnyDevice(u, cv) ==
    \E c \in ClientIds : /\ \E p \in Pods : c \in Clients[p]
                         /\ conn[c].UserID = u
                         /\ CurrentConversationID[c] = cv

\* C3 as claimed: the commit of a send adds exactly 1 to the unread_count of
\* every active member other than the sender who is viewing the conversation
\* on no device, adds nothing for those viewing it on some device, and
\* nothing for the sender.
C3_UnreadPerViewingAtCommit ==
    [][\A t \in TaskIds : Commits(t) =>
        /\ \A u \in ActiveMembers(task[t].conv) \ {task[t].user} :
                Row(task[t].conv, u).unread_count' =
                    Row(task[t].conv, u).unread_count
                        + (IF ViewingOnAnyDevice(u, task[t].conv) THEN 0 ELSE 1)
        /\ Row(task[t].conv, task[t].user).unread_count' =
                Row(task[t].conv, task[t].user).unread_count]_vars

\* C3 as amended: the commit of a send adds exactly 1 to the unread_count of
\* every active member other than the sender that the send's member query
\* returned and that its viewing checks (made before the transaction against
\* the hub of the sender's replica) found not viewing, adds nothing for the
\* members the checks found viewing, and nothing for the sender.
C3_UnreadPerSnapshot ==
    [][\A t \in TaskIds : Commits(t) =>
        /\ \A u \in (task[t].members \cap ActiveMembers(task[t].conv)) \ {task[t].user} :
                Row(task[t].conv, u).unread_count' =
                    Row(task[t].conv, u).unread_count
                        + (IF u \in task[t].viewing THEN 0 ELSE 1)
        /\ Row(task[t].conv, task[t].user).unread_count' =
                Row(task[t].conv, task[t].user).unread_count]_vars

\* a send has committed with one member in its viewing snapshot and another
\* active member outside it
C3_Witness ==
    \E t \in TaskIds :
        /\ SentOk(t)
        /\ \E u \in task[t].viewing, w \in task[t].members \ task[t].viewing :
            /\ IsActive(task[t].conv, u) /\ IsActive(task[t].conv, w)
            /\ Row(task[t].conv, u).unread_count = 0
            /\ Row(task[t].conv, w).unread_count = 1
            /\ Row(task[t].conv, task[t].user).unread_count = 0

\* C4: a send that began after a user had left the conversation does not
\* touch that user's unread_count or is_hidden, appends nothing to the user's
\* offline list and addresses no conversation_update or unread_count_update
\* frame to the user.
C4_NoEffectOnLeftMembers ==
    [][\A t \in TaskIds : \A u \in task[t].gone :
        /\ Commits(t) => Row(task[t].conv, u)' = Row(task[t].conv, u)
        /\ task'[t].pc \in {"fanOut", "SendToUser", "enqueue"}
                => /\ \A i \in 1..Len(offline_msg'[u]) : offline_msg'[u][i] # task'[t].msg
                   /\ \A i \in 1..Len(task'[t].bq) :
                        task'[t].bq[i].frame.type \in
                                {"conversation_update", "unread_count_update"}
                            => task'[t].bq[i].user # u]_vars

\* C5 as claimed: a member who is viewing the conversation (on any device)
\* at the step that commits a send's transaction keeps their unread_count.
C5_ViewerAtCommitNotIncremented ==
    [][\A t \in TaskIds : Commits(t) =>
        \A u \in ActiveMembers(task[t].conv) \ {task[t].user} :
            ViewingOnAnyDevice(u, task[t].conv)
                => Row(task[t].conv, u).unread_count' =
                        Row(task[t].conv, u).unread_count]_vars

\* C5 as amended: the viewing check a send makes for a member before its
\* transaction finds the member viewing exactly if at that moment a device of
\* the member registered on the sender's replica has the conversation as
\* current conversation, and the commit leaves the unread_count of every
\* member found viewing unchanged, whatever set_current_conversation frames
\* arrive after the check.
C5_ViewerAtSnapshotNotIncremented ==
    [][\A t \in TaskIds :
        /\ (task[t].pc = "snapshot" /\ task'[t] # task[t]) =>
                \E u \in task[t].todo :
                    /\ task'[t].todo = task[t].todo \ {u}
                    /\ task'[t].viewing =
                            task[t].viewing \cup
                                (IF \E c \in Clients[task[t].pod] :
                                        /\ conn[c].UserID = u
                                        /\ CurrentConversationID[c] = task[t].conv
                                 THEN {u} ELSE {})
        /\ Commits(t) =>
                \A u \in task[t].viewing :
                    Row(task[t].conv, u).unread_count' =
                        Row(task[t].conv, u).unread_count]_vars

\* a send has committed for a member who was in its snapshot, who has since
\* stopped viewing, and whose unread_count is still 0
C5_Witness ==
    \E t \in TaskIds :
        /\ SentOk(t)
        /\ \E u \in task[t].viewing :
            /\ ~ViewingOnAnyDevice(u, task[t].conv)
            /\ Row(task[t].conv, u).unread_count = 0

\* how often the frame of broadcast t is in the channel of client c or has
\* been written to its socket
FrameCount(c, t) ==
    Cardinality({i \in 1..Len(Send[c]) :
                    Send[c][i].type = "notification" /\ Send[c][i].id = t})
        + Cardinality({i \in 1..Len(written[c]) :
                    written[c][i].type = "notification" /\ written[c][i].id = t})

\* C6: when a broadcast to a user has returned, every device of that user
\* that was registered on some replica when the broadcast began, and still is
\* (on a live replica, with no deregistration pending), has got the frame
\* exactly once.
C6_ExactlyOncePerDevice ==
    \A t \in TaskIds :
        (task[t].op = "broadcast" /\ task[t].pc = "done") =>
            \A c \in task[t].devs :
                (Registered(c) /\ c \notin unregistering /\ ~panicked[conn[c].pod])
                    => FrameCount(c, t) = 1

\* C7: no replica ever performs a send on a closed outbound channel (in Go
\* such a send panics and ends the process).
C7_NoSendOnClosedChannel == \A p \in Pods : ~panicked[p]

SessionEnded(c) ==
    /\ conn[c].phase # "none"
    /\ (~Registered(c) /\ closed[c]) \/ panicked[conn[c].pod]

\* C8: whenever a frame for a session has been discarded because the
\* session's channel was full, the session is eventually out of the registry
\* with its channel closed.
C8_FullChannelEndsSession ==
    \A c \in ClientIds : (c \in dropped) ~> SessionEnded(c)

RejectedState(c) ==
    /\ conn[c].phase = "rejected"
    /\ ~Registered(c)
    /\ written[c] = <<TooManyDevices, CloseFrame>>

RecallSucceeded(t) ==
    /\ task[t].op = "recall"
    /\ task[t].err = ""
    /\ task[t].pc \in {"recallMembers", "recallPush", "SendToUser", "enqueue", "done"}

\* C10: for each message at most one recall call succeeds.
C10_AtMostOneRecallSucceeds ==
    \A m \in DOMAIN messages :
        Cardinality({t \in TaskIds : RecallSucceeded(t) /\ task[t].msg = m}) <= 1

\* C11: a recall by the sender of a live message passes the age check when
\* the age of the message measured by the database is at most 120 seconds
\* and is rejected when it is greater.
C11_RecallWithin120Seconds ==
    [][\A t \in TaskIds :
        (task[t].pc = "recallElapsed" /\ task'[t].pc # "recallElapsed") =>
            (task'[t].err = "" <=> now - messages[task[t].msg].created_at <= 120)]_vars

\* C12: while the relationship (B, A, blocked) exists, every send from A to
\* B is refused and persists no message, whether it names B by receiver_id
\* or their private conversation by conversation_id.
C12_BlockedSendRefused ==
    \A a \in Users, b \in Users :
        <<b, a>> \in user_relationships =>
            /\ \A i \in DOMAIN messages :
                ~(/\ messages[i].sender_id = a
                  /\ messages[i].conversation_id \in PrivateBetween(a, b))
            /\ \A t \in TaskIds :
                (/\ task[t].op = "send"
                 /\ task[t].user = a
                 /\ task[t].conv \in PrivateBetween(a, b)) => ~SentOk(t)

\* the step in which task t runs the INSERT of its message
Inserts(t) == task[t].pc = "transaction" /\ task'[t].pc = "commit"

\* C13: a message row is inserted, and committed, only while its sender is
\* an active member of the conversation (left_at not set), under every
\* interleaving of the send with leaveGroup or removeMember.
C13_SenderActiveAtInsert ==
    [][\A t \in TaskIds :
        (Inserts(t) \/ Commits(t)) => IsActive(task[t].conv, task[t].user)]_vars

NoSendInProgress == \A t \in TaskIds : task[t].pc \in {"idle", "done"}

\* C14: whenever no send is in progress, last_message_id of a conversation
\* that has messages is the id of a message of the conversation than which
\* none has a greater created_at.
C14_LastMessageIsNewest ==
    NoSendInProgress =>
        \A c \in ConvIds :
            MessagesOf(c) # {} =>
                /\ conversations[c].last_message_id \in MessagesOf(c)
                /\ \A i \in MessagesOf(c) :
                    messages[i].created_at
                        <= messages[conversations[c].last_message_id].created_at

FailedSend(t) == task[t].op = "send" /\ task[t].err = "failed to save message"

SaveFailed == Frame("error", Nil, Nil, 0, "failed to save message")

\* C15: when the transaction of a send fails the send returns the error to
\* its handler with nothing persisted, and from then on the send changes no
\* row, appends to no offline list and enqueues no frame but the error frame
\* on its own session: there is no fan-out for it.
C15_FailedTransactionNoFanOut ==
    [][\A t \in TaskIds :
        /\ (task[t].pc \in {"transaction", "commit"} /\ task'[t].err # "") =>
                /\ task'[t].pc \in {"unlock", "sendError"}
                /\ task'[t].msg = Nil
                /\ UNCHANGED <<conversations, conversation_members, messages,
                               offline_msg, Send>>
        /\ (FailedSend(t) /\ task'[t] # task[t]) =>
                /\ FailedSend(t)'
                /\ task'[t].pc \in {"sendError", "done"}
                /\ task'[t].bq = <<>>
                /\ UNCHANGED <<conversations, conversation_members, messages,
                               offline_msg>>
                /\ \A c \in ClientIds :
                        \/ Send'[c] = Send[c]
                        \/ /\ c = task[t].client
                           /\ Send'[c] = Append(Send[c], SaveFailed)]_vars

\* a send whose commit failed has ended: its client has the error frame, the
\* store and the offline lists are as they were before it
C15_Witness ==
    \E t \in TaskIds :
        /\ FailedSend(t)
        /\ task[t].pc = "done"
        /\ task[t].created_at # Nil
        /\ Send[task[t].client] = <<SaveFailed>>
        /\ Len(messages) = 1
        /\ conversations[1].last_message_id = 1
        /\ \A u \in Users : offline_msg[u] = <<>>

\* the member's last-read message is newer than the target of mark-read t
StaleRead(t) ==
    LET row == Row(task[t].conv, task[t].user)
    IN /\ row.last_read_message_id \in DOMAIN messages
       /\ messages[row.last_read_message_id].created_at > messages[task[t].msg].created_at

\* C16: a mark-read whose target is older than the member's last-read
\* message leaves the member's unread_count, last_read_message_id and
\* last_read_at as they are, and no frame is broadcast for it: no
\* unread_count_update to the reader, no read to the other members.
C16_StaleReadDoesNothing ==
    [][\A t \in TaskIds :
        /\ (task[t].pc = "readUpdate" /\ task'[t].pc # "readUpdate" /\ StaleRead(t)) =>
                /\ Row(task[t].conv, task[t].user)' = Row(task[t].conv, task[t].user)
                /\ task'[t].RowsAffected = 0
                /\ task'[t].bq = <<>>
        /\ (/\ task[t].op = "read"
            /\ task[t].pc \notin {"idle", "readUpdate"}
            /\ task[t].err = ""
            /\ task[t].RowsAffected = 0) =>
                task'[t].bq = <<>>]_vars

\* the offline_message frame of entry id is in the channel of a client of
\* user u or has been written to its socket
Replayed(u, id) ==
    \E c \in ClientIds :
        /\ conn[c].UserID = u
        /\ \/ \E i \in 1..Len(Send[c]) : Send[c][i] = OfflineFrame(id)
           \/ \E i \in 1..Len(written[c]) : written[c][i] = OfflineFrame(id)

\* C17: the replay enqueues offline_message frames on registered sessions
\* only, and when it deletes offline_msg:{user} every entry the list holds
\* has been enqueued as an offline_message frame on a session of the user.
C17_NoEntryDeletedUnreplayed ==
    [][\A c \in ClientIds :
        /\ (conn[c].replay = "send" /\ Send'[c] # Send[c]) => Registered(c)
        /\ (conn[c].replay = "del" /\ conn'[c].replay = "done") =>
                \A i \in 1..Len(offline_msg[conn[c].UserID]) :
                    Replayed(conn[c].UserID, offline_msg[conn[c].UserID][i])]_vars

\* no Register, Unregister or ForceOffline call is under way
NoRegistryCallInProgress ==
    /\ \A c \in ClientIds : conn[c].phase # "closing"
    /\ unregistering = {}
    /\ \A t \in TaskIds : task[t].pc \in {"idle", "done"}

\* C18: with enable_online_status on, whenever no register, unregister or
\* logout is in progress the key online:{user} exists exactly if the user
\* has a registered session on some replica.
C18_PresenceIffRegistered ==
    (IsFeatureEnabled("enable_online_status") /\ NoRegistryCallInProgress) =>
        \A u \in Users :
            u \in online <=> \E c \in ClientIds : Registered(c) /\ conn[c].UserID = u

\* C19: when the handling of a frame that came in on a session ends with an
\* error, the error frame for it is enqueued on that session, which stays
\* open and registered.
C19_FailureGetsErrorFrame ==
    [][\A t \in TaskIds :
        (/\ task[t].pc # "done"
         /\ task'[t].pc = "done"
         /\ task'[t].err # ""
         /\ task'[t].client # Nil) =>
            /\ Send'[task'[t].client] =
                    Append(Send[task'[t].client],
                           Frame("error", Nil, Nil, 0, task'[t].err))
            /\ conn'[task'[t].client].phase = "open"
            /\ task'[t].client \in Clients'[conn'[task'[t].client].pod]]_vars

LiveMessagesOf(c) == {i \in MessagesOf(c) : ~messages[i].is_recalled}

\* C20: last_message_id of a conversation never designates a recalled
\* message: it designates a message of the conversation that is not
\* recalled and than which no unrecalled message of the conversation is
\* newer, also after the newest message has been recalled.
C20_LastMessageNotRecalled ==
    \A c \in ConvIds :
        conversations[c].last_message_id # Nil =>
            /\ conversations[c].last_message_id \in LiveMessagesOf(c)
            /\ \A i \in LiveMessagesOf(c) :
                    messages[i].created_at
                        <= messages[conversations[c].last_message_id].created_at

\* the target of mark-read t is at least as new as every message of the
\* conversation the mark-read names
TargetIsNewest(t) ==
    \A i \in MessagesOf(task[t].conv) :
        messages[i].created_at <= messages[task[t].msg].created_at

\* C21: the unread_count of a member is never negative, and it is 0 right
\* after the UPDATE of a mark-read of the member whose target message is at
\* least as new as every message the conversation holds.
C21_UnreadZeroAfterNewestRead ==
    [][/\ \A c \in ConvIds, u \in Users : Row(c, u).unread_count' >= 0
       /\ \A t \in TaskIds :
            (/\ task[t].pc = "readUpdate"
             /\ task'[t].pc # "readUpdate"
             /\ HasRow(task[t].conv, task[t].user)
             /\ TargetIsNewest(t)) =>
                Row(task[t].conv, task[t].user).unread_count' = 0]_vars


\* every frame client c was ever sent, in the order of the sends: those
\* written to the socket, then those still in the channel
Enqueued(c) == written[c] \o Send[c]

\* C22: on every session the frames are written to the socket in the order
\* in which they were put on the session's channel: a send on the channel
\* adds the frame behind all frames put there before, and a write to the
\* socket writes the oldest frame that has not been written.
C22_WrittenInEnqueueOrder ==
    [][\A c \in ClientIds :
        /\ \/ Enqueued(c)' = Enqueued(c)
           \/ \E f \in {Send'[c][Len(Send'[c])]} :
                /\ Send'[c] = Append(Send[c], f)
                /\ written'[c] = written[c]
        /\ \/ written'[c] = written[c]
           \/ /\ Send[c] # <<>>
              /\ written'[c] = Append(written[c], Head(Send[c]))
              /\ Send'[c] = Tail(Send[c])]_vars

\* two different frames that were in the channel of a session at the same
\* time have been written, a third is waiting
C22_Witness ==
    \E c \in ClientIds :
        /\ Len(written[c]) >= 2
        /\ written[c][1] # written[c][2]
        /\ written[c][1].type = "notification"
        /\ written[c][2].type = "notification"
        /\ Send[c] # <<>>


NotYourMessage == "you can only recall your own messages"

\* C23: a recall of a message by a user who is not its sender ends with the
\* error "you can only recall your own messages" (403 Forbidden over HTTP);
\* no step of such a recall changes a message row, and it sends no frame
\* but the error frame to the session it came in on.
C23_RecallByOthersRefused ==
    [][\A t \in TaskIds :
        /\ (/\ task[t].pc = "recallRead"
            /\ task'[t].pc # "recallRead"
            /\ messages[task[t].msg].sender_id # task[t].user) =>
                /\ task'[t].err = NotYourMessage
                /\ RecallStatus(task'[t].err) = 403
                /\ task'[t].pc = "sendError"
                /\ UNCHANGED <<messages, Send>>
        /\ (task[t].op = "recall" /\ task[t].err = NotYourMessage /\ task'[t] # task[t]) =>
                /\ task'[t].pc = "done"
                /\ task'[t].bq = <<>>
                /\ messages' = messages
                /\ \A c \in ClientIds :
                        \/ Send'[c] = Send[c]
                        \/ /\ c = task[t].client
                           /\ Send'[c] = Append(Send[c],
                                            Frame("error", Nil, Nil, 0, NotYourMessage))]_vars

\* user 2 has asked, over the socket and over HTTP, for the recall of a
\* message of user 1 that is within the window: both calls were refused, the
\* message is not recalled and nobody was sent a recalled frame
C23_Witness ==
    /\ \E t \in TaskIds :
        task[t].pc = "done" /\ task[t].err = NotYourMessage /\ task[t].client # Nil
    /\ \E t \in TaskIds :
        task[t].pc = "done" /\ task[t].err = NotYourMessage /\ task[t].client = Nil
    /\ ~messages[1].is_recalled
    /\ now - messages[1].created_at <= RecallWindowSeconds
    /\ \A c \in ClientIds : \A i \in 1..Len(Send[c]) : Send[c][i].type # "recalled"


\* client c has been sent frame f
Got(c, f) == \E i \in 1..Len(Send[c]) : Send[c][i] = f

\* mark-read t has returned after its UPDATE changed the reader's row
ReadDone(t) ==
    /\ task[t].op = "read"
    /\ task[t].pc = "done"
    /\ task[t].err = ""
    /\ task[t].RowsAffected = 1

\* what C24 says of the mark-reads that have returned
ReadReceiptPerFlag ==
    \A t \in TaskIds : ReadDone(t) =>
        /\ Got(task[t].client, Frame("unread_count_update", task[t].conv, Nil, 0, ""))
        /\ IF IsFeatureEnabled("enable_read_receipt")
           THEN \A u \in ActiveMembers(task[t].conv) \ {task[t].user} :
                    \A c \in ClientIds :
                        (Registered(c) /\ conn[c].UserID = u) =>
                            Got(c, Frame("read", task[t].conv, task[t].msg, task[t].user, ""))
           ELSE \A c \in ClientIds : \A i \in 1..Len(Send[c]) : Send[c][i].type # "read"

\* C24: a mark-read that is not stale sets the reader's unread_count to 0
\* and pushes unread_count_update with count 0 to the reader whatever
\* enable_read_receipt is; with the flag off no read frame is sent to
\* anybody, with it on every connected session of every other active member
\* is sent the read frame.
C24_ReadReceiptOnlyWhenEnabled ==
    [][/\ \A t \in TaskIds :
            (task[t].pc = "readUpdate" /\ task'[t].pc # "readUpdate" /\ ~StaleRead(t)) =>
                /\ Row(task[t].conv, task[t].user).unread_count' = 0
                /\ task'[t].RowsAffected = 1
       /\ ReadReceiptPerFlag']_vars


\* the step is one of membership request t and changes a membership row
ChangesMembership(t) ==
    /\ task[t].op \in {"add", "remove"}
    /\ task'[t] # task[t]
    /\ conversation_members' # conversation_members

\* C25: a request to add or remove members changes a membership row only
\* while its caller is an active owner or admin of the group; a removal
\* never sets left_at on a row whose role is owner; a request that is
\* refused has changed nothing.
C25_OnlyOwnerOrAdminManage ==
    [][\A t \in TaskIds :
        /\ ChangesMembership(t) =>
                /\ IsGroup(task[t].conv)
                /\ ActiveRole(task[t].conv, task[t].user) \in {"owner", "admin"}
        /\ (ChangesMembership(t) /\ task[t].op = "remove") =>
                Row(task[t].conv, task[t].target).role # "owner"
        /\ (/\ task[t].op \in {"add", "remove"}
            /\ task[t].pc \in {"addOperator", "removeOperator", "removeTarget"}
            /\ task'[t].err # "") =>
                conversation_members' = conversation_members]_vars

\* the row a new group has for user u: the creator is owner, every other
\* listed user member, all active, nobody else has a row
GroupRow(u, creator, memberIDs) ==
    IF u = creator THEN NewMember("owner")
    ELSE IF u \in Range(memberIDs) THEN NewMember("member")
    ELSE NoMember

\* C26: createGroup succeeds for every list of ids, also one that names a
\* user twice or names the creator, and leaves a group with exactly one
\* active row per distinct user: the creator as owner, the others as member.
C26_CreateGroupDeduplicates ==
    [][\A t \in TaskIds :
        (task[t].pc = "idle" /\ task'[t].op = "createGroup") =>
            /\ task'[t].err = ""
            /\ task'[t].conv \in ConvIds
            /\ conversations[task'[t].conv].conversation_type = "none"
            /\ conversations'[task'[t].conv].conversation_type = "group"
            /\ \A u \in Users :
                    conversation_members'[<<task'[t].conv, u>>] =
                        GroupRow(u, task'[t].user, task'[t].ids)]_vars

\* C27: when UpdateSetting returns without error, the flag it wrote reads as
\* the new value for every component that reads that flag: the hub, the
\* message service and the conversation service.
ReadsAs(component, key, value) ==
    <<component, key>> \in FlagReads => GetBoolSetting(CacheOf(component), key) = value

UpdateVisible(t) == \A component \in Components : ReadsAs(component, task[t].key, task[t].value)

C27_UpdateSeenByEveryComponent ==
    [][\A t \in TaskIds :
        (task[t].pc = "updateCache" /\ task'[t].pc = "done") => UpdateVisible(t)']_vars

\* C28: once POST /logout by an authenticated user has been answered, the
\* key online:{user} is gone and every session of that user is out of the
\* registry of its replica and has its channel closed (or is at that moment
\* in another call of Unregister that has yet to close it).
LoggedOut(t) == task[t].op = "logout" /\ task[t].pc = "done"

SessionsOf(u) == {c \in ClientIds : conn[c].phase # "none" /\ conn[c].UserID = u}

InUnregister(c) ==
    \/ conn[c].phase = "closing"
    \/ \E t \in TaskIds : task[t].pc = "forceClose" /\ task[t].cur = c

C28_LogoutClearsPresenceAndSessions ==
    \A t \in TaskIds :
        LoggedOut(t) =>
            /\ task[t].user \notin online
            /\ \A c \in SessionsOf(task[t].user) :
                    ~Registered(c) /\ (closed[c] \/ InUnregister(c))

\* C29: createPrivateConversation never inserts a private conversation for
\* a pair that already has one, also when the key lock:create_conversation
\* has expired under its holder.
Creates(t) == task[t].pc = "create" /\ task'[t].pc # "create"

C29_NoDuplicateWhenLockLost ==
    [][\A t \in TaskIds :
        Creates(t) => PrivateBetween(task[t].user, task[t].req_recv) = {}]_vars

\* C30: a task that deletes a lock key that is set is the only task inside
\* the section the key guards: it deletes its own lock, never the lock of a
\* task that acquired the key after the TTL had expired.
GuardedBy(t) ==
    (IF task[t].pc \in {"select2", "create", "createUnlock"}
     THEN {CreateLockKey(task[t].user, task[t].req_recv)} ELSE {})
    \cup (IF task[t].locked THEN {SendLockKey(task[t].conv, task[t].user)} ELSE {})

Deletes(t, k) == k \in GuardedBy(t) /\ k \in locks /\ k \notin locks' /\ k \notin GuardedBy(t)'

C30_LockReleasedOnlyByHolder ==
    [][\A t \in TaskIds : \A k \in locks :
        Deletes(t, k) => \A s \in TaskIds \ {t} : k \notin GuardedBy(s)]_vars

\* C31: a goroutine that holds the registry lock h.mu makes no Redis call:
\* the step it takes with the lock held leaves the presence keys alone.
ActsWithHubLock(c) == HoldsHubLock(c) /\ conn'[c] # conn[c]

C31_NoRedisCallUnderHubLock ==
    [][\A c \in ClientIds : ActsWithHubLock(c) => online' = online]_vars

\* C32: the steps of sendOfflineMessages (the LRANGE, the sends, the DEL of
\* offline_msg:{user}) are taken for sessions that Register let in, never
\* for a connection it rejected for exceeding the device cap.
ReplayStep(c) == conn[c].replay \in {"start", "send", "del"} /\ conn'[c].replay # conn[c].replay

C32_NoReplayForRejectedConnection ==
    [][\A c \in ClientIds : ReplayStep(c) => conn[c].phase # "rejected"]_vars

\* C33: the unreadCount a send puts into its conversation_update and
\* unread_count_update frames for a recipient is the recipient's
\* unread_count as the send's transaction leaves it at its commit.
CarriedUnread(t, u) ==
    IF u \in task[t].viewing THEN task[t].munread[u] ELSE task[t].munread[u] + 1

C33_FramesCarryCommittedUnread ==
    [][\A t \in TaskIds : Commits(t) =>
        \A u \in task[t].members :
            CarriedUnread(t, u) = Row(task[t].conv, u).unread_count']_vars

\* C34: a message is appended to offline_msg:{user} only when the user has
\* no registered session on any replica at that moment.
HasSession(u) == \E c \in ClientIds : Registered(c) /\ conn[c].UserID = u

C34_QueuedOnlyWhenOffline ==
    [][\A u \in Users :
        Len(offline_msg'[u]) > Len(offline_msg[u]) => ~HasSession(u)]_vars

\* C35: a send that ended with an error has created nothing: no message of
\* it is in the table and it has inserted no conversation and no member row.
Refused(t) == task[t].op = "send" /\ task[t].err # ""

C35_RefusedSendChangesNothing ==
    \A t \in TaskIds : Refused(t) => (task[t].msg = Nil /\ ~task[t].justCreated)

\* C36: every read or typing frame in a session's channel comes from a user
\* who is an active member of the conversation the frame is about.
AboutConversation(f) == f.type \in {"read", "typing"}

C36_ReadTypingOnlyFromMembers ==
    \A c \in ClientIds : \A i \in 1..Len(Send[c]) :
        AboutConversation(Send[c][i]) => IsActive(Send[c][i].conv, Send[c][i].n)

\* C37: every group conversation has exactly one active member whose role
\* is owner.
ActiveOwners(cv) == {u \in Users : ActiveRole(cv, u) = "owner"}

C37_ExactlyOneOwner ==
    \A cv \in ConvIds : IsGroup(cv) => Cardinality(ActiveOwners(cv)) = 1

\* C38: when no UpdateSetting and no LoadSettings call is under way on the
\* shared registry, its cache holds for every key of the table the value
\* the table holds.
SettingsCallInProgress == \E t \in TaskIds : task[t].pc \in {"updateCache", "loadCache"}

C38_CacheEqualsTableWhenQuiet ==
    ~SettingsCallInProgress =>
        \A key \in DOMAIN system_settings : settingsCache[key] = system_settings[key]

\* C39: a send that is a member's, is not blocked and is within the
\* first-message limit is not refused at a lock request unless the key is
\* held by another request: an error of the cache alone refuses no send.
RefusedAtLock(t) == task[t].pc \in {"gate", "createLock"} /\ task'[t].err # ""

LockKeyOf(t) ==
    IF task[t].pc = "gate" THEN SendLockKey(task[t].conv, task[t].user)
    ELSE CreateLockKey(task[t].user, task[t].req_recv)

MeetsPreconditions(t) ==
    /\ ~isBlocked(task[t].user, task[t].req_recv)
    /\ task[t].pc = "gate" => CheckCanSend(task[t].user, task[t].conv)

C39_CacheErrorRefusesNoSend ==
    [][\A t \in TaskIds :
        (RefusedAtLock(t) /\ MeetsPreconditions(t)) => LockKeyOf(t) \in locks]_vars

\* C40: a lock:create_conversation or lock:send_msg key whose holder has
\* stopped without releasing it is eventually free again, so that a later
\* request for the same key can acquire it.
HolderCrashed(k) ==
    k \in locks /\ \E t \in TaskIds : HoldsLock(t, k) /\ ~Alive(t)

C40_CrashedHoldersLockIsFreed ==
    \A k \in LockKeys : HolderCrashed(k) ~> (k \notin locks)

\* a request on the other replica holds the key that a stopped request held
C40_Witness ==
    \E k \in LockKeys : \E t1 \in TaskIds, t2 \in TaskIds :
        /\ k \in locks
        /\ HoldsLock(t1, k) /\ ~Alive(t1)
        /\ HoldsLock(t2, k) /\ Alive(t2)

====
